---- MODULE Spec2Model ----
(***************************************************************************)
(* Verification model of the flight simulation and ghost tracking code.    *)
(*                                                                         *)
(* Eight units that share no state are modelled side by side; focus says   *)
(* which of them a behaviour drives:                                       *)
(*   "server"  : OpenSkyHistoricalService (dataset, registry, two timers)  *)
(*   "ghost"   : useSearchAreas hook (search areas, animation clock) and   *)
(*               the flights the map layers are given                      *)
(*   "service" : BaseFlightService lifecycle with RealTimeService          *)
(*   "geo"     : the position and radius functions of server and client,   *)
(*               called on arguments drawn from bounded sets               *)
(*   "store"   : useFlightData over the socket (merge of flights_update)   *)
(*   "poll"    : useFlightData over HTTP (fetching by mode)                *)
(*   "manager" : ServiceManager (switching between services)               *)
(*   "mode"    : useSystemMode hook (the mode the client shows and asks    *)
(*               the server for)                                           *)
(*                                                                         *)
(* Time is in milliseconds.  Latitude and longitude are fixed point,       *)
(* in micro-degrees.  Velocity is in the unit of the dataset (the server   *)
(* treats it as knots), heading in whole degrees.                          *)
(***************************************************************************)
EXTENDS Integers, Sequences, FiniteSets, TLC

----------------------------------------------------------------------------
(* Bounds of the model *)

MaxTime == 1500
MaxClients == 1
MaxTimers == 2
MaxGhostTime == 50
MaxDepth == 2
MaxGhostIds == 2
MaxCalls == 2
MaxSvcTimers == 2
SyntheticCount == 1
MaxSteps == 3
MaxStoreTime == 2
MaxStoreIds == 3
MaxFetches == 2
MaxServices == 3
MaxSwitchCalls == 2
MaxModeChanges == 2
MaxModeFetches == 1

(* Program constants.  BATCH_SIZE and MAX_FLIGHTS_TO_SEND are scaled down from
   400 and 1500, keeping batch < capacity and watermark + batch > capacity *)
BATCH_SIZE == 4
MAX_FLIGHTS_TO_SEND == 5
ANIMATION_INTERVAL == 500
ANIMATION_INTERVAL_MS == 50
\* scaled down from 3000
MAX_FLIGHTS == 2

Null == -1000000000
Huge == 1000000000
NoTimer == 0

VARIABLES
    \* the unit a behaviour drives: the units share no state
    focus,
    \* OpenSkyHistoricalService
    allStates, currentBatchIndex, activeFlights, streamInterval,
    animationInterval, lastUpdate, loadState,
    \* environment of the service: timers of the event loop, sockets, clock
    streamTimers, animTimers, clients, now, emitted, pc, last,
    \* useSearchAreas
    searchAreas, renderedAreas, intervalRef, ghostTimers,
    searchAreaDepthCounter, animationClock, ghostNow, ghostLast,
    \* the flights prop of useSearchAreaLayers
    flightsRef,
    \* BaseFlightService, and which of its two versions is built: the one
    \* whose stop() awaits cleanup(), or the one whose stop() does not
    isRunning, intervalId, svcTimers, svcPc, repository, svcLast,
    stopAwaitsCleanup,
    \* the last call of a position or radius function: its name, its
    \* arguments and what it returned
    call,
    \* useFlightData over the socket: the flights state, the clock of the
    \* browser, and the last operation with the state it started in
    storeFlights, storeNow, storeLast,
    \* useFlightData over HTTP: the mode prop, the flights state, the refs,
    \* the live timers and the getFlights requests that have not answered
    pollMode, pollFlights, pollIntervalRef, pollTimers, isMountedRef,
    snapFetchCompletedRef, pollFetches,
    \* ServiceManager: its current service, the services created so far,
    \* the calls that are waiting at an await, and the last call that
    \* returned
    currentService, services, managerCalls, managerLast,
    \* useSystemMode: the three states of the hook, the values of the
    \* render whose changeMode callback the page holds, the requests that
    \* have not answered, and the last operation with the state it
    \* started in
    sysCurrentMode, sysLoading, sysError, sysRendered, sysChanges,
    sysFetches, sysLast

serverVars == <<allStates, currentBatchIndex, activeFlights, streamInterval,
                animationInterval, lastUpdate, loadState, streamTimers,
                animTimers, clients, now, emitted, pc, last>>
ghostVars == <<searchAreas, renderedAreas, intervalRef, ghostTimers,
               searchAreaDepthCounter, animationClock, ghostNow, ghostLast,
               flightsRef>>
serviceVars == <<isRunning, intervalId, svcTimers, svcPc, repository, svcLast,
                 stopAwaitsCleanup>>
geoVars == <<call>>
storeVars == <<storeFlights, storeNow, storeLast>>
pollVars == <<pollMode, pollFlights, pollIntervalRef, pollTimers,
              isMountedRef, snapFetchCompletedRef, pollFetches>>
managerVars == <<currentService, services, managerCalls, managerLast>>
modeVars == <<sysCurrentMode, sysLoading, sysError, sysRendered, sysChanges,
              sysFetches, sysLast>>
vars == <<focus, serverVars, ghostVars, serviceVars, geoVars, storeVars,
          pollVars, managerVars, modeVars>>

----------------------------------------------------------------------------
(* Generic helpers *)

Min(a, b) == IF a < b THEN a ELSE b

Max(a, b) == IF a > b THEN a ELSE b

\* s without its i-th element
RemoveAt(s, i) == SubSeq(s, 1, i - 1) \o SubSeq(s, i + 1, Len(s))

\* Array.prototype.slice(from, to) with 0-based, end-exclusive indices
Slice(s, from, to) == SubSeq(s, from + 1, Min(to, Len(s)))

\* setInterval hands out a handle no live timer has
NewTimer(live) == CHOOSE t \in 1..(Cardinality(live) + 1) : t \notin live

----------------------------------------------------------------------------
(* Numbers: JavaScript truthiness and fixed point trigonometry *)

\* !x is true for 0, null and undefined
Truthy(x) == x # 0 /\ x # Null

Abs(a) == IF a >= 0 THEN a ELSE -a

\* 1000 * cos(d degrees), d = 0..90, rounded
CosMilliTable == <<
    1000, 1000, 999, 999, 998, 996, 995, 993, 990, 988, 985, 982, 978,
    974, 970, 966, 961, 956, 951, 946, 940, 934, 927, 921, 914, 906,
    899, 891, 883, 875, 866, 857, 848, 839, 829, 819, 809, 799, 788,
    777, 766, 755, 743, 731, 719, 707, 695, 682, 669, 656, 643, 629,
    616, 602, 588, 574, 559, 545, 530, 515, 500, 485, 469, 454, 438,
    423, 407, 391, 375, 358, 342, 326, 309, 292, 276, 259, 242, 225,
    208, 191, 174, 156, 139, 122, 105, 87, 70, 52, 35, 17, 0 >>

\* 1000 * cos of a latitude given in micro-degrees (whole degree band)
CosLatMilli(lat) == CosMilliTable[Min(Abs(lat) \div 1000000, 90) + 1]

\* floor(a * b / c) for a, b >= 0 and c > 0, computed within 32 bits
MulDiv(a, b, c) == (a \div c) * b + ((a % c) * b) \div c

\* a * b / c rounded toward zero, for a and b of either sign
SignedMulDiv(a, b, c) ==
    IF (a >= 0) = (b >= 0) THEN MulDiv(Abs(a), Abs(b), c)
    ELSE -MulDiv(Abs(a), Abs(b), c)

Sign(a) == IF a > 0 THEN 1 ELSE IF a < 0 THEN -1 ELSE 0

\* 1000 * cos and 1000 * sin of a heading in degrees, for the multiples of
\* 45 the model uses; Math.cos and Math.sin take any angle, 450 as 90
CosDeg(h) ==
    CASE h % 360 = 0 -> 1000
      [] h % 360 = 45 -> 707
      [] h % 360 = 90 -> 0
      [] h % 360 = 135 -> -707
      [] h % 360 = 180 -> -1000
      [] h % 360 = 225 -> -707
      [] h % 360 = 270 -> 0
      [] h % 360 = 315 -> 707

SinDeg(h) == CosDeg(h + 270)

----------------------------------------------------------------------------
(* Dataset files *)

ObjRow(id, lat, lon, v, h) ==
    [fmt |-> "object", icao24 |-> id, lat |-> lat, lon |-> lon,
     velocity |-> v, heading |-> h]

ArrRow(id, lat, lon, v, h) ==
    [fmt |-> "array", icao24 |-> id, lat |-> lat, lon |-> lon,
     velocity |-> v, heading |-> h]

\* an array of keyed objects; one row lacks a latitude, one lacks an id, and
\* ids 1 and 2 occur twice
ObjectFile ==
    [kind |-> "objects",
     rows |-> << ObjRow(1, 32000000, 34900000, 360, 90),
                 ObjRow(2, 31000000, 35000000, 0, 90),
                 ObjRow(7, Null, 34000000, 360, 90),
                 ObjRow(Null, 30000000, 34000000, 360, 90),
                 ObjRow(3, 60000000, 10000000, 720, 180),
                 ObjRow(1, 10000000, 20000000, 360, 90),
                 ObjRow(4, 0, 179999000, 720, 90),
                 ObjRow(5, 32500000, 34500000, 360, 0),
                 ObjRow(6, 33000000, 35500000, 360, 270),
                 ObjRow(2, 31000000, 35000000, 360, 270) >>]

\* {time, states: [[...]]}; one tuple lacks a longitude, one an id, one a
\* velocity and one a heading
StatesFile ==
    [kind |-> "states",
     rows |-> << ArrRow(1, 32000000, 34900000, 360, 90),
                 ArrRow(2, 31000000, Null, 360, 90),
                 ArrRow(Null, 30000000, 34000000, 360, 90),
                 ArrRow(3, 31500000, 35100000, Null, 180),
                 ArrRow(8, 33000000, 35000000, 360, Null) >>]

\* an array of tuples that is not wrapped in {states: ...}
TupleArrayFile ==
    [kind |-> "objects",
     rows |-> << ArrRow(1, 32000000, 34900000, 360, 90),
                 ArrRow(9, 31000000, 35000000, 360, 90) >>]

\* the file holds []
EmptyArrayFile == [kind |-> "objects", rows |-> <<>>]

MissingFile == [kind |-> "missing", rows |-> <<>>]

CorruptFile == [kind |-> "corrupt", rows |-> <<>>]

\* valid JSON that is neither an array nor an object with states
OtherShapeFile == [kind |-> "other", rows |-> <<>>]

Files == {ObjectFile, StatesFile, TupleArrayFile, EmptyArrayFile,
          MissingFile, CorruptFile, OtherShapeFile}

\* generateSyntheticIsraeliTraffic: keyed objects with fresh ids
SyntheticFlights ==
    [i \in 1..SyntheticCount |->
        ObjRow(40000 + i, 32500000, 34500000, 360, 270)]

generateSyntheticIsraeliTraffic(states) == states \o SyntheticFlights

\* obj.lat != null && obj.lon != null: a tuple has neither property
ObjHasPosition(obj) ==
    obj.fmt = "object" /\ obj.lat # Null /\ obj.lon # Null

\* state[5] != null && state[6] != null: a keyed object has neither index
ArrHasPosition(state) ==
    state.fmt = "array" /\ state.lon # Null /\ state.lat # Null

\* a loader that has added the synthetic traffic when it finds that it does
\* not know the format
loadDatasetKeepsSynthetic(file) ==
    IF file.kind = "objects" /\ Len(file.rows) > 0
    THEN [ok |-> TRUE,
          states |-> generateSyntheticIsraeliTraffic(
                        SelectSeq(file.rows, ObjHasPosition))]
    ELSE IF file.kind = "states"
    THEN [ok |-> TRUE,
          states |-> generateSyntheticIsraeliTraffic(
                        SelectSeq(file.rows, ArrHasPosition))]
    ELSE [ok |-> FALSE, states |-> generateSyntheticIsraeliTraffic(<<>>)]

\* the try block of loadDataset: ok is FALSE when it throws, and states is
\* what this.allStates then holds: the assignments are all behind the throws
loadDataset(file) ==
    IF file.kind = "objects" /\ Len(file.rows) > 0
    THEN [ok |-> TRUE,
          states |-> generateSyntheticIsraeliTraffic(
                        SelectSeq(file.rows, ObjHasPosition))]
    ELSE IF file.kind = "states"
    THEN [ok |-> TRUE,
          states |-> generateSyntheticIsraeliTraffic(
                        SelectSeq(file.rows, ArrHasPosition))]
    ELSE [ok |-> FALSE, states |-> <<>>]

----------------------------------------------------------------------------
(* OpenSkyHistoricalService: pure parts *)

\* a mapping that does not look whether id and position are there
mapStateToFlightUnchecked(state) ==
    << [flightId |-> state.icao24,
        latitude |-> state.lat,
        longitude |-> state.lon,
        velocity |-> IF Truthy(state.velocity) THEN state.velocity ELSE 0,
        trueTrack |-> IF Truthy(state.heading) THEN state.heading ELSE 0] >>

\* the IFlight of a state, as a sequence: <<>> is null
mapStateToFlight(state) ==
    LET velocity == IF state.fmt = "object"
                    THEN (IF Truthy(state.velocity) THEN state.velocity ELSE 0)
                    ELSE state.velocity
        trueTrack == IF state.fmt = "object"
                     THEN (IF Truthy(state.heading) THEN state.heading ELSE 0)
                     ELSE state.heading
    IN  IF ~Truthy(state.icao24) \/ state.lon = Null \/ state.lat = Null
        THEN <<>>
        ELSE << [flightId |-> state.icao24,
                 latitude |-> state.lat,
                 longitude |-> state.lon,
                 velocity |-> IF Truthy(velocity) THEN velocity ELSE 0,
                 trueTrack |-> IF Truthy(trueTrack) THEN trueTrack ELSE 0] >>

\* batchStates.map(mapStateToFlight).filter(flight !== null)
RECURSIVE MapStates(_)
MapStates(states) ==
    IF states = <<>> THEN <<>>
    ELSE mapStateToFlight(Head(states)) \o MapStates(Tail(states))

\* Map.has on the registry, a Map that keeps insertion order
Has(reg, id) == \E i \in 1..Len(reg) : reg[i].flightId = id

\* a refill that sets every flight of the batch, as Map.set does for a key
\* that is present: the entry keeps its place and takes the new value
RECURSIVE AddFlightsOverwriting(_, _)
AddFlightsOverwriting(reg, flights) ==
    IF flights = <<>> THEN reg
    ELSE IF Has(reg, Head(flights).flightId)
         THEN AddFlightsOverwriting(
                 [i \in 1..Len(reg) |->
                     IF reg[i].flightId = Head(flights).flightId
                     THEN Head(flights) ELSE reg[i]],
                 Tail(flights))
         ELSE AddFlightsOverwriting(Append(reg, Head(flights)), Tail(flights))

\* flights.forEach(flight => { if (!has) set })
RECURSIVE AddFlights(_, _)
AddFlights(reg, flights) ==
    IF flights = <<>> THEN reg
    ELSE IF Has(reg, Head(flights).flightId)
         THEN AddFlights(reg, Tail(flights))
         ELSE AddFlights(Append(reg, Head(flights)), Tail(flights))

\* a refill without the limit
LimitActiveFlightsNever(reg) == reg

\* a limit that drops the newest entries instead of the oldest
LimitActiveFlightsNewest(reg) ==
    IF Len(reg) > MAX_FLIGHTS_TO_SEND
    THEN SubSeq(reg, 1, MAX_FLIGHTS_TO_SEND)
    ELSE reg

\* the "Limit active flights" block: delete the first keys of the Map
LimitActiveFlights(reg) ==
    IF Len(reg) > MAX_FLIGHTS_TO_SEND
    THEN SubSeq(reg, Len(reg) - MAX_FLIGHTS_TO_SEND + 1, Len(reg))
    ELSE reg

\* a refill that only stops at full capacity
EnoughActiveFlightsAtCapacity(reg) == Len(reg) >= MAX_FLIGHTS_TO_SEND

\* activeFlights.size >= MAX_FLIGHTS_TO_SEND * 0.8
EnoughActiveFlights(reg) == Len(reg) * 10 >= MAX_FLIGHTS_TO_SEND * 8

\* distance in millimetres: velocity * 1852 / 3600 m/s over dtMs / 1000 s
\* (1852 / 3600 = 463 / 900)
distanceOf(velocity, dtMs) == MulDiv(dtMs, velocity * 463, 900)

\* a tick step that returns early for a flight without velocity only, and
\* takes a missing heading as 0
updateFlightPositionHeadingDefault(flight, dtMs) ==
    IF ~Truthy(flight.velocity) THEN flight
    ELSE
    LET heading == IF Truthy(flight.trueTrack) THEN flight.trueTrack ELSE 0
        distanceMm == distanceOf(flight.velocity, dtMs)
        latChange == SignedMulDiv(distanceMm, CosDeg(heading), 111320)
        lonChange == IF CosLatMilli(flight.latitude) = 0
                     THEN Huge * Sign(SinDeg(heading))
                     ELSE SignedMulDiv(
                            SignedMulDiv(distanceMm, SinDeg(heading), 111320),
                            1000, CosLatMilli(flight.latitude))
        lat1 == flight.latitude + latChange
        lon1 == flight.longitude + lonChange
        lon2 == IF lon1 > 180000000 THEN lon1 - 360000000 ELSE lon1
        lon3 == IF lon2 < -180000000 THEN lon2 + 360000000 ELSE lon2
    IN  [flight EXCEPT !.latitude = Max(-90000000, Min(90000000, lat1)),
                       !.longitude = lon3]

updateFlightPosition(flight, dtMs) ==
    IF ~Truthy(flight.velocity) \/ ~Truthy(flight.trueTrack) THEN flight
    ELSE
    LET distanceMm == distanceOf(flight.velocity, dtMs)
        \* micro-degrees: (distance * cos) / 111320 degrees
        latChange == SignedMulDiv(distanceMm, CosDeg(flight.trueTrack),
                                  111320)
        \* at the pole Math.cos is about 6e-17, not 0: the quotient is huge
        lonChange == IF CosLatMilli(flight.latitude) = 0
                     THEN Huge * Sign(SinDeg(flight.trueTrack))
                     ELSE SignedMulDiv(
                            SignedMulDiv(distanceMm, SinDeg(flight.trueTrack),
                                         111320),
                            1000, CosLatMilli(flight.latitude))
        lat1 == flight.latitude + latChange
        lon1 == flight.longitude + lonChange
        lon2 == IF lon1 > 180000000 THEN lon1 - 360000000 ELSE lon1
        lon3 == IF lon2 < -180000000 THEN lon2 + 360000000 ELSE lon2
    IN  [flight EXCEPT !.latitude = Max(-90000000, Min(90000000, lat1)),
                       !.longitude = lon3]

\* activeFlights.forEach(updateFlightPosition)
UpdateAll(reg, dtMs) ==
    [i \in 1..Len(reg) |-> updateFlightPosition(reg[i], dtMs)]

\* a flights_update that leaves out the flights that stand still
PayloadMovingOnly(reg) ==
    SelectSeq([i \in 1..Len(reg) |->
                  [flightId |-> reg[i].flightId, latitude |-> reg[i].latitude,
                   longitude |-> reg[i].longitude,
                   velocity |-> reg[i].velocity,
                   trueTrack |-> reg[i].trueTrack, isGhost |-> FALSE]],
              LAMBDA f : Truthy(f.velocity))

\* the records of a flights_update
Payload(reg) ==
    [i \in 1..Len(reg) |->
        [flightId |-> reg[i].flightId, latitude |-> reg[i].latitude,
         longitude |-> reg[i].longitude, velocity |-> reg[i].velocity,
         trueTrack |-> reg[i].trueTrack, isGhost |-> FALSE]]


----------------------------------------------------------------------------
(* OpenSkyHistoricalService: state machine *)

\* what the last operation of the service was, and the state it started in
Before(op, dt) ==
    [op |-> op, activeFlights |-> activeFlights,
     currentBatchIndex |-> currentBatchIndex,
     streamInterval |-> streamInterval,
     animationInterval |-> animationInterval,
     streamTimers |-> streamTimers, animTimers |-> animTimers,
     clients |-> clients, dt |-> dt]

InitServer ==
    /\ allStates = <<>>
    /\ currentBatchIndex = 0
    /\ activeFlights = <<>>
    /\ streamInterval = NoTimer
    /\ animationInterval = NoTimer
    /\ lastUpdate = 0
    /\ loadState = "none"
    /\ streamTimers = {}
    /\ animTimers = {}
    /\ clients = 0
    /\ now = 0
    /\ emitted = <<>>
    /\ pc = "idle"
    /\ last = [op |-> "new", activeFlights |-> <<>>, currentBatchIndex |-> 0,
               streamInterval |-> NoTimer, animationInterval |-> NoTimer,
               streamTimers |-> {}, animTimers |-> {},
               clients |-> 0, dt |-> 0]

\* loadDataset, called once at startup; loadState is "failed" when it threw
\* to its caller, and the service object lives on
LoadDataset(file) ==
    /\ focus = "server"
    /\ pc = "idle"
    /\ loadState = "none"
    /\ LET r == loadDataset(file)
       IN  /\ allStates' = r.states
           /\ loadState' = IF r.ok THEN "loaded" ELSE "failed"
    /\ last' = Before("loadDataset", 0)
    /\ emitted' = <<>>
    /\ UNCHANGED <<currentBatchIndex, activeFlights, streamInterval,
                   animationInterval, lastUpdate, streamTimers, animTimers,
                   clients, now, pc>>
    /\ UNCHANGED <<focus, ghostVars, serviceVars, geoVars,
                   storeVars, pollVars, managerVars, modeVars>>

\* a startStreaming without the test for a running stream
StartStreamingUnguarded ==
    /\ focus = "server"
    /\ pc = "idle"
    /\ Cardinality(streamTimers) < MaxTimers
    /\ Cardinality(animTimers) < MaxTimers
    /\ last' = Before("startStreaming", 0)
    /\ emitted' = <<>>
    /\ LET s == NewTimer(streamTimers \cup animTimers)
           a == NewTimer(streamTimers \cup animTimers \cup {s})
       IN  /\ streamInterval' = s
           /\ streamTimers' = streamTimers \cup {s}
           /\ animationInterval' = a
           /\ animTimers' = animTimers \cup {a}
           /\ lastUpdate' = now
    /\ UNCHANGED <<allStates, currentBatchIndex, activeFlights, loadState,
                   clients, now, pc>>
    /\ UNCHANGED <<focus, ghostVars, serviceVars, geoVars,
                   storeVars, pollVars, managerVars, modeVars>>

\* startStreaming, including its call of startAnimation
StartStreaming ==
    /\ focus = "server"
    /\ pc = "idle"
    /\ Cardinality(streamTimers) < MaxTimers
    /\ Cardinality(animTimers) < MaxTimers
    /\ last' = Before("startStreaming", 0)
    /\ emitted' = <<>>
    /\ IF streamInterval # NoTimer \/ Len(allStates) = 0
       THEN UNCHANGED <<streamInterval, streamTimers, animationInterval,
                        animTimers, lastUpdate>>
       ELSE LET s == NewTimer(streamTimers \cup animTimers)
                a == NewTimer(streamTimers \cup animTimers \cup {s})
            IN  /\ streamInterval' = s
                /\ streamTimers' = streamTimers \cup {s}
                /\ IF animationInterval # NoTimer
                   THEN UNCHANGED <<animationInterval, animTimers, lastUpdate>>
                   ELSE /\ animationInterval' = a
                        /\ animTimers' = animTimers \cup {a}
                        /\ lastUpdate' = now
    /\ UNCHANGED <<allStates, currentBatchIndex, activeFlights, loadState,
                   clients, now, pc>>
    /\ UNCHANGED <<focus, ghostVars, serviceVars, geoVars,
                   storeVars, pollVars, managerVars, modeVars>>

\* a refill that wraps only when the end lies past the dataset
sendNextBatchStrictWrap(reg, index) ==
    IF clients = 0 \/ EnoughActiveFlights(reg)
    THEN [activeFlights |-> reg, currentBatchIndex |-> index]
    ELSE LET endIndex == Min(index + BATCH_SIZE, Len(allStates))
             flights == MapStates(Slice(allStates, index, endIndex))
         IN  [activeFlights |->
                 IF Len(flights) > 0
                 THEN LimitActiveFlights(AddFlights(reg, flights))
                 ELSE reg,
              currentBatchIndex |->
                 IF endIndex > Len(allStates) THEN 0 ELSE endIndex]

\* the registry and the cursor after sendNextBatch
sendNextBatch(reg, index) ==
    IF clients = 0 \/ EnoughActiveFlights(reg)
    THEN [activeFlights |-> reg, currentBatchIndex |-> index]
    ELSE LET endIndex == Min(index + BATCH_SIZE, Len(allStates))
             flights == MapStates(Slice(allStates, index, endIndex))
         IN  [activeFlights |->
                 IF Len(flights) > 0
                 THEN LimitActiveFlights(AddFlights(reg, flights))
                 ELSE reg,
              currentBatchIndex |->
                 IF endIndex >= Len(allStates) THEN 0 ELSE endIndex]

\* a firing of the refill timer
SendNextBatch ==
    /\ focus = "server"
    /\ pc = "idle"
    /\ streamTimers # {}
    /\ LET r == sendNextBatch(activeFlights, currentBatchIndex)
       IN  /\ activeFlights' = r.activeFlights
           /\ currentBatchIndex' = r.currentBatchIndex
    /\ last' = Before("sendNextBatch", 0)
    /\ emitted' = <<>>
    /\ UNCHANGED <<allStates, streamInterval, animationInterval, lastUpdate,
                   loadState, streamTimers, animTimers, clients, now, pc>>
    /\ UNCHANGED <<focus, ghostVars, serviceVars, geoVars,
                   storeVars, pollVars, managerVars, modeVars>>

\* the registry after the callback of the animation timer
animationTick(reg, dtMs) == IF clients = 0 THEN reg ELSE UpdateAll(reg, dtMs)

\* a firing of the animation timer
AnimationTick ==
    /\ focus = "server"
    /\ pc = "idle"
    /\ animTimers # {}
    /\ lastUpdate' = now
    /\ activeFlights' = animationTick(activeFlights, now - lastUpdate)
    /\ emitted' = IF clients = 0 THEN <<>> ELSE Payload(activeFlights')
    /\ last' = Before("animationTick", now - lastUpdate)
    /\ UNCHANGED <<allStates, currentBatchIndex, streamInterval,
                   animationInterval, loadState, streamTimers, animTimers,
                   clients, now, pc>>
    /\ UNCHANGED <<focus, ghostVars, serviceVars, geoVars,
                   storeVars, pollVars, managerVars, modeVars>>

\* a stop that forgets the handle without cancelling the timer
ClearTimerHandleOnly(live, handle) == live

\* clearInterval(handle); handle = null, for a handle that is set
ClearTimer(live, handle) == IF handle # NoTimer THEN live \ {handle} ELSE live

\* stopStreaming, first part: both timers
StopStreaming ==
    /\ focus = "server"
    /\ pc = "idle"
    /\ streamTimers' = ClearTimer(streamTimers, streamInterval)
    /\ streamInterval' = NoTimer
    /\ animTimers' = ClearTimer(animTimers, animationInterval)
    /\ animationInterval' = NoTimer
    /\ pc' = "clearing"
    /\ last' = Before("stopStreaming", 0)
    /\ emitted' = <<>>
    /\ UNCHANGED <<allStates, currentBatchIndex, activeFlights, lastUpdate,
                   loadState, clients, now>>
    /\ UNCHANGED <<focus, ghostVars, serviceVars, geoVars,
                   storeVars, pollVars, managerVars, modeVars>>

\* a stop that also sends the cursor back to the start of the dataset
StopStreamingClearRewinds ==
    /\ focus = "server"
    /\ pc = "clearing"
    /\ activeFlights' = <<>>
    /\ currentBatchIndex' = 0
    /\ pc' = "idle"
    /\ emitted' = <<>>
    /\ UNCHANGED <<allStates, streamInterval,
                   animationInterval, lastUpdate, loadState, streamTimers,
                   animTimers, clients, now, last>>
    /\ UNCHANGED <<focus, ghostVars, serviceVars, geoVars,
                   storeVars, pollVars, managerVars, modeVars>>

\* stopStreaming, second part: activeFlights.clear()
StopStreamingClear ==
    /\ focus = "server"
    /\ pc = "clearing"
    /\ activeFlights' = <<>>
    /\ pc' = "idle"
    /\ emitted' = <<>>
    /\ UNCHANGED <<allStates, currentBatchIndex, streamInterval,
                   animationInterval, lastUpdate, loadState, streamTimers,
                   animTimers, clients, now, last>>
    /\ UNCHANGED <<focus, ghostVars, serviceVars, geoVars,
                   storeVars, pollVars, managerVars, modeVars>>

\* a socket connects or disconnects: io.sockets.sockets.size
ClientConnect ==
    /\ focus = "server"
    /\ pc = "idle"
    /\ clients < MaxClients
    /\ clients' = clients + 1
    /\ UNCHANGED <<allStates, currentBatchIndex, activeFlights, streamInterval,
                   animationInterval, lastUpdate, loadState, streamTimers,
                   animTimers, now, emitted, pc, last>>
    /\ UNCHANGED <<focus, ghostVars, serviceVars, geoVars,
                   storeVars, pollVars, managerVars, modeVars>>

ClientDisconnect ==
    /\ focus = "server"
    /\ pc = "idle"
    /\ clients > 0
    /\ clients' = clients - 1
    /\ UNCHANGED <<allStates, currentBatchIndex, activeFlights, streamInterval,
                   animationInterval, lastUpdate, loadState, streamTimers,
                   animTimers, now, emitted, pc, last>>
    /\ UNCHANGED <<focus, ghostVars, serviceVars, geoVars,
                   storeVars, pollVars, managerVars, modeVars>>

\* Date.now() moves on
AdvanceClock ==
    /\ focus = "server"
    /\ pc = "idle"
    /\ now + ANIMATION_INTERVAL <= MaxTime
    /\ now' = now + ANIMATION_INTERVAL
    /\ UNCHANGED <<allStates, currentBatchIndex, activeFlights, streamInterval,
                   animationInterval, lastUpdate, loadState, streamTimers,
                   animTimers, clients, emitted, pc, last>>
    /\ UNCHANGED <<focus, ghostVars, serviceVars, geoVars,
                   storeVars, pollVars, managerVars, modeVars>>


----------------------------------------------------------------------------
(* useSearchAreas: the hook's state, the closures of its last render, and  *)
(* the animation effect                                                    *)

GhostIds == 1..MaxGhostIds

SearchTypes == {"regular", "smart"}

\* the flight a user can track: id 1 moves, the others stand still
LiveFlight(id) ==
    [flightId |-> id, latitude |-> 32000000, longitude |-> 34900000,
     velocity |-> IF id = 1 THEN 50 ELSE 0, trueTrack |-> 90]

\* a search area whose depth does not come from the counter
createSearchAreaFixedDepth(flight, searchType, counter, time) ==
    [originalId |-> flight.flightId, frozenAt |-> time,
     searchType |-> searchType, zIndex |-> 1,
     latitude |-> flight.latitude, longitude |-> flight.longitude,
     velocity |-> flight.velocity, trueTrack |-> flight.trueTrack]

\* createSearchArea, with the counter value it reads
createSearchArea(flight, searchType, counter, time) ==
    [originalId |-> flight.flightId, frozenAt |-> time,
     searchType |-> searchType, zIndex |-> counter,
     latitude |-> flight.latitude, longitude |-> flight.longitude,
     velocity |-> flight.velocity, trueTrack |-> flight.trueTrack]

\* searchAreas.some(area => area.originalId === flightId)
isFlightTracked(flightId, areas) ==
    \E i \in 1..Len(areas) : areas[i].originalId = flightId

\* prev.filter(area => area.originalId !== flightId)
RemoveArea(areas, flightId) ==
    LET Other(area) == area.originalId # flightId
    IN  SelectSeq(areas, Other)

\* getSearchAreaStatus over the searchAreas of a render
getSearchAreaStatus(flightId, areas) ==
    IF ~isFlightTracked(flightId, areas) THEN "NONE"
    ELSE LET i == CHOOSE j \in 1..Len(areas) :
                    /\ areas[j].originalId = flightId
                    /\ \A k \in 1..(j - 1) : areas[k].originalId # flightId
         IN  IF areas[i].searchType = "smart" THEN "SMART" ELSE "REGULAR"

\* clearAnimationInterval: the handle and the live timers after it
clearAnimationInterval(ref, live) ==
    [ref |-> NoTimer, live |-> ClearTimer(live, ref)]

\* an effect that leaves the timer alone when no area is left
AnimationEffectKeepsTimer(hasActive, ref, live) ==
    LET body == clearAnimationInterval(ref, live)
        t == NewTimer(body.live)
    IN  IF hasActive
        THEN [ref |-> t, live |-> body.live \cup {t}]
        ELSE [ref |-> ref, live |-> live]

\* the animation effect after the cleanup of the previous one: the handle
\* and the live timers after a commit whose hasActiveSearchAreas changed
AnimationEffect(hasActive, ref, live) ==
    LET cleanup == clearAnimationInterval(ref, live)
        body == clearAnimationInterval(cleanup.ref, cleanup.live)
        t == NewTimer(body.live)
    IN  IF hasActive
        THEN [ref |-> t, live |-> body.live \cup {t}]
        ELSE body

GhostBefore(op, id) ==
    [op |-> op, id |-> id, areas |-> searchAreas,
     rendered |-> renderedAreas,
     prevOp |-> ghostLast.op, prevId |-> ghostLast.id,
     prevAreas |-> ghostLast.areas, prevRendered |-> ghostLast.rendered,
     renderedBetween |-> FALSE, flights |-> flightsRef]

InitGhost ==
    /\ searchAreas = <<>>
    /\ renderedAreas = <<>>
    /\ intervalRef = NoTimer
    /\ ghostTimers = {}
    /\ searchAreaDepthCounter = 1
    /\ animationClock = 0
    /\ ghostNow = 0
    /\ ghostLast = [op |-> "mount", id |-> 0, areas |-> <<>>,
                    rendered |-> <<>>, prevOp |-> "mount", prevId |-> 0,
                    prevAreas |-> <<>>, prevRendered |-> <<>>,
                    renderedBetween |-> FALSE, flights |-> <<>>]
    /\ flightsRef = <<>>

OpenSearchArea(id, searchType) ==
    /\ focus = "ghost"
    /\ searchAreaDepthCounter <= MaxDepth
    /\ IF isFlightTracked(id, renderedAreas)
       THEN UNCHANGED <<searchAreas, searchAreaDepthCounter>>
       ELSE /\ searchAreas' =
                 Append(searchAreas,
                        createSearchArea(LiveFlight(id), searchType,
                                         searchAreaDepthCounter, ghostNow))
            /\ searchAreaDepthCounter' = searchAreaDepthCounter + 1
    /\ ghostLast' = GhostBefore("open", id)
    /\ UNCHANGED <<renderedAreas, intervalRef, ghostTimers, animationClock,
                   ghostNow>>
    /\ UNCHANGED <<focus, serverVars, serviceVars, geoVars, flightsRef,
                   storeVars, pollVars, managerVars, modeVars>>

CloseSearchArea(id) ==
    /\ focus = "ghost"
    /\ searchAreas' = RemoveArea(searchAreas, id)
    /\ ghostLast' = GhostBefore("close", id)
    /\ UNCHANGED <<renderedAreas, intervalRef, ghostTimers,
                   searchAreaDepthCounter, animationClock, ghostNow>>
    /\ UNCHANGED <<focus, serverVars, serviceVars, geoVars, flightsRef,
                   storeVars, pollVars, managerVars, modeVars>>

ToggleSearchArea(id, searchType) ==
    /\ focus = "ghost"
    /\ searchAreaDepthCounter <= MaxDepth
    /\ IF isFlightTracked(id, renderedAreas)
       THEN /\ searchAreas' = RemoveArea(searchAreas, id)
            /\ UNCHANGED searchAreaDepthCounter
       ELSE /\ searchAreas' =
                 Append(searchAreas,
                        createSearchArea(LiveFlight(id), searchType,
                                         searchAreaDepthCounter, ghostNow))
            /\ searchAreaDepthCounter' = searchAreaDepthCounter + 1
    /\ ghostLast' = GhostBefore("toggle", id)
    /\ UNCHANGED <<renderedAreas, intervalRef, ghostTimers, animationClock,
                   ghostNow>>
    /\ UNCHANGED <<focus, serverVars, serviceVars, geoVars, flightsRef,
                   storeVars, pollVars, managerVars, modeVars>>

\* a reset that removes the regular areas only
ClearAllSearchAreasKeepsSmart ==
    /\ focus = "ghost"
    /\ searchAreas' = SelectSeq(searchAreas,
                                LAMBDA a : a.searchType = "smart")
    /\ ghostLast' = GhostBefore("clearAll", 0)
    /\ UNCHANGED <<renderedAreas, intervalRef, ghostTimers,
                   searchAreaDepthCounter, animationClock, ghostNow>>
    /\ UNCHANGED <<focus, serverVars, serviceVars, geoVars, flightsRef,
                   storeVars, pollVars, managerVars, modeVars>>

\* clearAllSearchAreas: setSearchAreas([])
ClearAllSearchAreas ==
    /\ focus = "ghost"
    /\ searchAreas' = <<>>
    /\ ghostLast' = GhostBefore("clearAll", 0)
    /\ UNCHANGED <<renderedAreas, intervalRef, ghostTimers,
                   searchAreaDepthCounter, animationClock, ghostNow>>
    /\ UNCHANGED <<focus, serverVars, serviceVars, geoVars, flightsRef,
                   storeVars, pollVars, managerVars, modeVars>>

\* React re-renders with the queued state and commits: the callbacks close
\* over the new searchAreas, and the effect runs when its dependency changed
Render ==
    /\ focus = "ghost"
    /\ renderedAreas # searchAreas
    /\ renderedAreas' = searchAreas
    /\ IF (Len(searchAreas) > 0) # (Len(renderedAreas) > 0)
       THEN LET r == AnimationEffect(Len(searchAreas) > 0, intervalRef,
                                     ghostTimers)
            IN  /\ intervalRef' = r.ref
                /\ ghostTimers' = r.live
       ELSE UNCHANGED <<intervalRef, ghostTimers>>
    /\ ghostLast' = [ghostLast EXCEPT !.renderedBetween = TRUE]
    /\ UNCHANGED <<searchAreas, searchAreaDepthCounter, animationClock,
                   ghostNow>>
    /\ UNCHANGED <<focus, serverVars, serviceVars, geoVars, flightsRef,
                   storeVars, pollVars, managerVars, modeVars>>

\* a firing of the animation timer: setAnimationClock(Date.now())
GhostTick ==
    /\ focus = "ghost"
    /\ ghostTimers # {}
    /\ animationClock' = ghostNow
    /\ UNCHANGED <<searchAreas, renderedAreas, intervalRef, ghostTimers,
                   searchAreaDepthCounter, ghostNow, ghostLast>>
    /\ UNCHANGED <<focus, serverVars, serviceVars, geoVars, flightsRef,
                   storeVars, pollVars, managerVars, modeVars>>

\* the feeds the map can be given: no flight, or flight 1 further east
GhostFeeds ==
    {<<>>, <<[LiveFlight(1) EXCEPT !.longitude = 34950000]>>}

\* a feed change that also drops the areas whose flight has left the feed
FlightsPropChangePrunesAreas ==
    /\ focus = "ghost"
    /\ \E feed \in GhostFeeds :
          /\ feed # flightsRef
          /\ flightsRef' = feed
          /\ searchAreas' =
                SelectSeq(searchAreas,
                          LAMBDA a : \E i \in 1..Len(feed) :
                                        feed[i].flightId = a.originalId)
    /\ ghostLast' = GhostBefore("flights", 0)
    /\ UNCHANGED <<renderedAreas, intervalRef, ghostTimers,
                   searchAreaDepthCounter, animationClock, ghostNow>>
    /\ UNCHANGED <<focus, serverVars, serviceVars, geoVars,
                   storeVars, pollVars, managerVars, modeVars>>

\* the component re-renders with another flights prop:
\* flightsRef.current = flights; the hook of the search areas is not told
FlightsPropChange ==
    /\ focus = "ghost"
    /\ \E feed \in GhostFeeds :
          /\ feed # flightsRef
          /\ flightsRef' = feed
    /\ ghostLast' = GhostBefore("flights", 0)
    /\ UNCHANGED <<searchAreas, renderedAreas, intervalRef, ghostTimers,
                   searchAreaDepthCounter, animationClock, ghostNow>>
    /\ UNCHANGED <<focus, serverVars, serviceVars, geoVars,
                   storeVars, pollVars, managerVars, modeVars>>

AdvanceGhostClock ==
    /\ focus = "ghost"
    /\ ghostNow + ANIMATION_INTERVAL_MS <= MaxGhostTime
    /\ ghostNow' = ghostNow + ANIMATION_INTERVAL_MS
    /\ UNCHANGED <<searchAreas, renderedAreas, intervalRef, ghostTimers,
                   searchAreaDepthCounter, animationClock, ghostLast>>
    /\ UNCHANGED <<focus, serverVars, serviceVars, geoVars, flightsRef,
                   storeVars, pollVars, managerVars, modeVars>>


----------------------------------------------------------------------------
(* Client side geometry: deadReckoning.ts, calculateSearchRadius and the   *)
(* connecting line of useSearchAreaLayers.  Distances are in millimetres,  *)
(* a safety margin is in thousandths.                                      *)

\* EARTH_RADIUS_METERS * PI / 180: the metres of one degree of arc
MetresPerDegree == 111195

\* the default of the safetyMargin parameter, 1.1
DefaultSafetyMargin == 1100

\* <<longitude, latitude>> of the destination point, for a start that is not
\* a pole.  Exact along a meridian and along the equator, of first order in
\* the distance elsewhere.  asin folds a passage over a pole back, and
\* atan2 then turns the longitude by 180 degrees; nothing wraps the
\* longitude
calculateDestinationPoint(startLat, startLon, distanceMm, bearingDegrees) ==
    LET delta == SignedMulDiv(distanceMm, 1000, MetresPerDegree)
        lat1 == startLat + SignedMulDiv(delta, CosDeg(bearingDegrees), 1000)
        lon1 == startLon
                  + SignedMulDiv(
                       SignedMulDiv(delta, SinDeg(bearingDegrees), 1000),
                       1000, CosLatMilli(startLat))
    IN  IF lat1 > 90000000 THEN <<lon1 + 180000000, 180000000 - lat1>>
        ELSE IF lat1 < -90000000
        THEN <<lon1 + 180000000, -180000000 - lat1>>
        ELSE <<lon1, lat1>>

\* speedMs is taken as metres per second; the elapsed time is in ms here
predictCurrentPosition(lastLat, lastLon, speedMs, heading, timeElapsedMs) ==
    calculateDestinationPoint(lastLat, lastLon, speedMs * timeElapsedMs,
                              heading)

\* x || 0
OrZero(x) == IF Truthy(x) THEN x ELSE 0

\* a connecting line that always ends at the predicted position
getGhostPositionPredicted(area, currentFlights, clock) ==
    predictCurrentPosition(area.latitude, area.longitude,
                           OrZero(area.velocity), OrZero(area.trueTrack),
                           clock - area.frozenAt)

\* getGhostPosition with the flights and the clock its closure holds
getGhostPosition(area, currentFlights, clock) ==
    LET found == SelectSeq(currentFlights,
                           LAMBDA f : f.flightId = area.originalId)
    IN  IF found # <<>>
        THEN <<found[1].longitude, found[1].latitude>>
        ELSE predictCurrentPosition(area.latitude, area.longitude,
                                    OrZero(area.velocity),
                                    OrZero(area.trueTrack),
                                    clock - area.frozenAt)

\* getTargetPosition of the connection line layer: getGhostPosition with
\* the flights and the clock of the current render
getTargetPosition(area) == getGhostPosition(area, flightsRef, animationClock)

\* a radius from the velocity taken as km/h: velocity / 3.6 metres per second
calculateSearchRadiusKmh(searchArea, currentTime, safetyMargin) ==
    SignedMulDiv(
        (currentTime - searchArea.frozenAt)
            * ((OrZero(searchArea.velocity) * 10) \div 36),
        safetyMargin, 1000)

\* a radius that grows from the epoch instead of from frozenAt
calculateSearchRadiusFromEpoch(searchArea, currentTime, safetyMargin) ==
    SignedMulDiv(currentTime * OrZero(searchArea.velocity), safetyMargin, 1000)

\* the radius in millimetres
calculateSearchRadius(searchArea, currentTime, safetyMargin) ==
    SignedMulDiv(
        (currentTime - searchArea.frozenAt) * OrZero(searchArea.velocity),
        safetyMargin, 1000)

----------------------------------------------------------------------------
(* The position and radius functions, called on arguments from bounded     *)
(* sets.  The functions are pure, so each call starts from the state in    *)
(* which nothing was called; only the radius of an area is read again and  *)
(* again while the clock moves                                             *)

GeoLats == {0, 32000000, 60000000, 89999000, 90000000, -90000000}

GeoLons == {0, 34900000, 179999000, -179999000}

GeoVelocities == {Null, 0, 50, 360}

GeoHeadings == {Null, 0, 45, 90, 180, 270, 450}

GeoTimes == {0, 500, 1000, 20000}

StepLats == {0, 32000000, 60000000}

StepHeadings == {0, 45, 90, 180, 315}

StepVelocities == {0, 486}

StepTimes == {500, 600000}

GeoFlight(id, lat, lon, v, h) ==
    [flightId |-> id, latitude |-> lat, longitude |-> lon,
     velocity |-> v, trueTrack |-> h]

\* the search areas of flight 1, frozen where LiveFlight(1) is
GeoAreas ==
    { createSearchArea(
          GeoFlight(1, LiveFlight(1).latitude, LiveFlight(1).longitude, v, h),
          "regular", 1, t) :
      v \in {Null, 0, 50}, h \in {Null, 0, 90}, t \in {0, 1000} }

\* what the live feed can hold: flight 1, if it is there, has moved on
GeoFeeds ==
    LET other == GeoFlight(2, 31000000, 35000000, 360, 90)
        live == GeoFlight(1, 32000000, 34950000, 50, 90)
        late == GeoFlight(1, 32000000, 34990000, 50, 90)
    IN  { <<>>, <<other>>, <<other, live>>, <<live, other, late>> }

\* the tick step applied n times with the same elapsed time
RECURSIVE Steps(_, _, _)
Steps(flight, dtMs, n) ==
    IF n = 0 THEN flight
    ELSE Steps(updateFlightPosition(flight, dtMs), dtMs, n - 1)

InitGeo == call = [fn |-> "none"]

\* the radius layer reads the radius of an area at a clock reading; prev is
\* the reading before it of the same area, if there was one
CallCalculateSearchRadius ==
    /\ focus = "geo"
    /\ call.fn \in {"none", "calculateSearchRadius"}
    /\ \E area \in GeoAreas, t \in GeoTimes :
          /\ call.fn = "calculateSearchRadius" => call.area = area
          /\ call' = [fn |-> "calculateSearchRadius", area |-> area,
                      currentTime |-> t,
                      radius |-> calculateSearchRadius(area, t,
                                                       DefaultSafetyMargin),
                      prev |-> IF call.fn = "calculateSearchRadius"
                               THEN <<[currentTime |-> call.currentTime,
                                       radius |-> call.radius]>>
                               ELSE <<>>]
    /\ UNCHANGED <<focus, serverVars, ghostVars, serviceVars,
                   storeVars, pollVars, managerVars, modeVars>>

\* the line layer asks for the end of the connecting line of an area
CallGetGhostPosition ==
    /\ focus = "geo"
    /\ call.fn = "none"
    /\ \E area \in GeoAreas, currentFlights \in GeoFeeds, clock \in GeoTimes :
          call' = [fn |-> "getGhostPosition", area |-> area,
                   currentFlights |-> currentFlights,
                   animationClock |-> clock,
                   position |-> getGhostPosition(area, currentFlights, clock)]
    /\ UNCHANGED <<focus, serverVars, ghostVars, serviceVars,
                   storeVars, pollVars, managerVars, modeVars>>

\* predictCurrentPosition on numbers, as getGhostPosition passes them, from
\* a start that is not a pole
CallPredictCurrentPosition ==
    /\ focus = "geo"
    /\ call.fn = "none"
    /\ \E lat \in {l \in GeoLats : Abs(l) < 90000000}, lon \in GeoLons,
          v \in GeoVelocities \ {Null}, h \in GeoHeadings \ {Null},
          elapsed \in GeoTimes :
          call' = [fn |-> "predictCurrentPosition", latitude |-> lat,
                   longitude |-> lon, velocity |-> v, trueTrack |-> h,
                   elapsed |-> elapsed,
                   position |->
                       predictCurrentPosition(lat, lon, v, h, elapsed)]
    /\ UNCHANGED <<focus, serverVars, ghostVars, serviceVars,
                   storeVars, pollVars, managerVars, modeVars>>

\* one tick step of the server on one flight
CallUpdateFlightPosition ==
    /\ focus = "geo"
    /\ call.fn = "none"
    /\ \E lat \in GeoLats, lon \in GeoLons, v \in GeoVelocities,
          h \in GeoHeadings, dtMs \in GeoTimes :
          call' = [fn |-> "updateFlightPosition",
                   flight |-> GeoFlight(1, lat, lon, v, h), dt |-> dtMs,
                   result |-> updateFlightPosition(
                                 GeoFlight(1, lat, lon, v, h), dtMs)]
    /\ UNCHANGED <<focus, serverVars, ghostVars, serviceVars,
                   storeVars, pollVars, managerVars, modeVars>>

\* n ticks of dtMs on a flight, and one tick of n * dtMs on the same flight
CallSteps ==
    /\ focus = "geo"
    /\ call.fn = "none"
    /\ \E lat \in StepLats, v \in StepVelocities, h \in StepHeadings,
          dtMs \in StepTimes, n \in 1..MaxSteps :
          call' = [fn |-> "steps",
                   flight |-> GeoFlight(1, lat, 10000000, v, h),
                   dt |-> dtMs, n |-> n,
                   stepwise |-> Steps(GeoFlight(1, lat, 10000000, v, h),
                                      dtMs, n),
                   once |-> updateFlightPosition(
                               GeoFlight(1, lat, 10000000, v, h), n * dtMs)]
    /\ UNCHANGED <<focus, serverVars, ghostVars, serviceVars,
                   storeVars, pollVars, managerVars, modeVars>>

----------------------------------------------------------------------------
(* BaseFlightService with the initialize / cleanup of RealTimeService.     *)
(* start is async, and so is cleanup: a call is suspended at each await,   *)
(* and svcPc counts the calls suspended at each place and keeps the        *)
(* flights of each bulkWrite that has not answered.  stop() is async       *)
(* and awaits cleanup() in one version of the class, and is synchronous    *)
(* and leaves the promise of cleanup() alone in the other.                 *)

\* what the OpenSky API can answer: flights, none, or an error
FetchResults ==
    {[ok |-> TRUE, flights |-> {1}], [ok |-> TRUE, flights |-> {1, 2}],
     [ok |-> TRUE, flights |-> {}], [ok |-> FALSE, flights |-> {}]}

SvcBefore(op) ==
    [op |-> op, isRunning |-> isRunning, intervalId |-> intervalId,
     svcTimers |-> svcTimers, svcPc |-> svcPc, repository |-> repository]

InFlight == svcPc.startFetch + Len(svcPc.startWrite) + svcPc.stopDelete
            + svcPc.tickFetch + Len(svcPc.tickWrite)

InitService ==
    /\ isRunning = FALSE
    /\ intervalId = NoTimer
    /\ svcTimers = {}
    /\ svcPc = [startFetch |-> 0, startWrite |-> <<>>, stopDelete |-> 0,
                tickFetch |-> 0, tickWrite |-> <<>>]
    /\ repository = {}
    /\ svcLast = [op |-> "new", isRunning |-> FALSE, intervalId |-> NoTimer,
                  svcTimers |-> {}, svcPc |-> svcPc, repository |-> {}]
    /\ stopAwaitsCleanup \in (IF focus = "service" THEN BOOLEAN ELSE {TRUE})

\* start(): returns at once when running, else runs up to the first await of
\* initialize (fetchFlightsFromAPI)
ServiceStart ==
    /\ focus = "service"
    /\ InFlight < MaxCalls
    /\ Cardinality(svcTimers) + svcPc.startFetch + Len(svcPc.startWrite)
          < MaxSvcTimers
    /\ svcLast' = SvcBefore("start")
    /\ IF isRunning
       THEN UNCHANGED svcPc
       ELSE svcPc' = [svcPc EXCEPT !.startFetch = @ + 1]
    /\ UNCHANGED <<isRunning, intervalId, svcTimers, repository>>
    /\ UNCHANGED stopAwaitsCleanup
    /\ UNCHANGED <<focus, serverVars, ghostVars, geoVars,
                   storeVars, pollVars, managerVars, modeVars>>

\* the end of initialize and of start: setInterval, then isRunning = true
FinishStart ==
    LET t == NewTimer(svcTimers)
    IN  /\ intervalId' = t
        /\ svcTimers' = svcTimers \cup {t}
        /\ isRunning' = TRUE

\* the fetch of initialize answers; an empty answer or an error (caught in
\* fetchAndUpdateFlights) ends the fetch, flights go on to bulkWrite
ServiceStartFetched(result) ==
    /\ focus = "service"
    /\ svcPc.startFetch > 0
    /\ svcLast' = SvcBefore("startFetched")
    /\ IF ~result.ok \/ result.flights = {}
       THEN /\ svcPc' = [svcPc EXCEPT !.startFetch = @ - 1]
            /\ FinishStart
            /\ UNCHANGED repository
       ELSE /\ svcPc' = [svcPc EXCEPT
                                !.startFetch = @ - 1,
                                !.startWrite = Append(@, result.flights)]
            /\ UNCHANGED <<isRunning, intervalId, svcTimers, repository>>
    /\ UNCHANGED stopAwaitsCleanup
    /\ UNCHANGED <<focus, serverVars, ghostVars, geoVars,
                   storeVars, pollVars, managerVars, modeVars>>

\* repository.bulkWrite of initialize resolves or rejects (caught)
ServiceStartWritten(ok) ==
    /\ focus = "service"
    /\ svcLast' = SvcBefore("startWritten")
    /\ \E i \in 1..Len(svcPc.startWrite) :
          /\ svcPc' = [svcPc EXCEPT !.startWrite = RemoveAt(@, i)]
          /\ repository' = IF ok THEN repository \cup svcPc.startWrite[i]
                           ELSE repository
    /\ FinishStart
    /\ UNCHANGED stopAwaitsCleanup
    /\ UNCHANGED <<focus, serverVars, ghostVars, geoVars,
                   storeVars, pollVars, managerVars, modeVars>>

\* a firing of the interval: fetchAndUpdateFlights up to its first await
ServiceTick ==
    /\ focus = "service"
    /\ svcTimers # {}
    /\ InFlight < MaxCalls
    /\ svcLast' = SvcBefore("tick")
    /\ svcPc' = [svcPc EXCEPT !.tickFetch = @ + 1]
    /\ UNCHANGED <<isRunning, intervalId, svcTimers, repository>>
    /\ UNCHANGED stopAwaitsCleanup
    /\ UNCHANGED <<focus, serverVars, ghostVars, geoVars,
                   storeVars, pollVars, managerVars, modeVars>>

ServiceTickFetched(result) ==
    /\ focus = "service"
    /\ svcPc.tickFetch > 0
    /\ svcLast' = SvcBefore("tickFetched")
    /\ IF ~result.ok \/ result.flights = {}
       THEN svcPc' = [svcPc EXCEPT !.tickFetch = @ - 1]
       ELSE svcPc' = [svcPc EXCEPT
                           !.tickFetch = @ - 1,
                           !.tickWrite = Append(@, result.flights)]
    /\ UNCHANGED <<isRunning, intervalId, svcTimers, repository>>
    /\ UNCHANGED stopAwaitsCleanup
    /\ UNCHANGED <<focus, serverVars, ghostVars, geoVars,
                   storeVars, pollVars, managerVars, modeVars>>

ServiceTickWritten(ok) ==
    /\ focus = "service"
    /\ svcLast' = SvcBefore("tickWritten")
    /\ \E i \in 1..Len(svcPc.tickWrite) :
          /\ svcPc' = [svcPc EXCEPT !.tickWrite = RemoveAt(@, i)]
          /\ repository' = IF ok THEN repository \cup svcPc.tickWrite[i]
                           ELSE repository
    /\ UNCHANGED <<isRunning, intervalId, svcTimers>>
    /\ UNCHANGED stopAwaitsCleanup
    /\ UNCHANGED <<focus, serverVars, ghostVars, geoVars,
                   storeVars, pollVars, managerVars, modeVars>>

\* a stop() without the isRunning guard: cleanup runs in any case
ServiceStopUnguarded ==
    /\ focus = "service"
    /\ InFlight < MaxCalls
    /\ svcLast' = SvcBefore("stop")
    /\ svcTimers' = ClearTimer(svcTimers, intervalId)
    /\ intervalId' = NoTimer
    /\ svcPc' = [svcPc EXCEPT !.stopDelete = @ + 1]
    /\ isRunning' = IF stopAwaitsCleanup THEN isRunning ELSE FALSE
    /\ UNCHANGED <<repository, stopAwaitsCleanup>>
    /\ UNCHANGED <<focus, serverVars, ghostVars, geoVars,
                   storeVars, pollVars, managerVars, modeVars>>

\* stop(): returns at once when not running, else cleanup up to its await:
\* clearInterval, then repository.deleteAll.  The synchronous stop() goes
\* on at once to isRunning = false, the async one waits for cleanup
ServiceStop ==
    /\ focus = "service"
    /\ InFlight < MaxCalls
    /\ svcLast' = SvcBefore("stop")
    /\ IF ~isRunning
       THEN UNCHANGED <<svcPc, intervalId, svcTimers, isRunning>>
       ELSE /\ svcTimers' = ClearTimer(svcTimers, intervalId)
            /\ intervalId' = NoTimer
            /\ svcPc' = [svcPc EXCEPT !.stopDelete = @ + 1]
            /\ isRunning' = IF stopAwaitsCleanup THEN isRunning ELSE FALSE
    /\ UNCHANGED <<repository, stopAwaitsCleanup>>
    /\ UNCHANGED <<focus, serverVars, ghostVars, geoVars,
                   storeVars, pollVars, managerVars, modeVars>>

\* deleteAll resolves or rejects (caught in cleanup); the async stop() then
\* sets isRunning = false
ServiceStopDeleted(ok) ==
    /\ focus = "service"
    /\ svcPc.stopDelete > 0
    /\ svcLast' = SvcBefore("stopDeleted")
    /\ svcPc' = [svcPc EXCEPT !.stopDelete = @ - 1]
    /\ repository' = IF ok THEN {} ELSE repository
    /\ isRunning' = IF stopAwaitsCleanup THEN FALSE ELSE isRunning
    /\ UNCHANGED <<intervalId, svcTimers, stopAwaitsCleanup>>
    /\ UNCHANGED <<focus, serverVars, ghostVars, geoVars,
                   storeVars, pollVars, managerVars, modeVars>>

----------------
(* useFlightData over the socket: the flights_update handler and            *)
(* updateFlightColor.  A record keeps its id, one coordinate, its colour   *)
(* and lastUpdated in milliseconds                                         *)

StoreIds == 1..MaxStoreIds

\* color: flight.color || '#FFD700' of the server's records
ServerColor == "#FFD700"

\* the colours a user picks
UserColors == {"#FF0000"}

StoreLatitudes == {32000000, 32000100}

\* a record of a flights_update as the server sends it
ServerRecord(id, lat) ==
    [flightId |-> id, latitude |-> lat, color |-> ServerColor]

\* the batches a flights_update carries: one or two flights, no id twice
StoreBatches ==
    {<<ServerRecord(a, lat)>> : a \in StoreIds, lat \in StoreLatitudes}
      \cup {<<ServerRecord(ab[1], lat), ServerRecord(ab[2], lat)>> :
                ab \in {p \in StoreIds \X StoreIds : p[1] # p[2]},
                lat \in StoreLatitudes}

\* { ...flight, lastUpdated: new Date().toISOString() }
Stamp(flight, time) ==
    [flightId |-> flight.flightId, latitude |-> flight.latitude,
     color |-> flight.color, lastUpdated |-> time]

\* flightsMap.set for each flight of the batch: an id the Map has keeps its
\* place and takes the new record, another id goes to the end
RECURSIVE SetAll(_, _, _)
SetAll(map, newFlights, time) ==
    IF newFlights = <<>> THEN map
    ELSE LET flight == Stamp(Head(newFlights), time)
         IN  IF \E i \in 1..Len(map) : map[i].flightId = flight.flightId
             THEN SetAll([i \in 1..Len(map) |->
                            IF map[i].flightId = flight.flightId
                            THEN flight ELSE map[i]],
                         Tail(newFlights), time)
             ELSE SetAll(Append(map, flight), Tail(newFlights), time)

\* sort((a, b) => b.lastUpdated - a.lastUpdated): descending and stable,
\* for times from latest down to 0
RECURSIVE SortByLastUpdated(_, _)
SortByLastUpdated(updatedFlights, latest) ==
    IF latest < 0 THEN <<>>
    ELSE SelectSeq(updatedFlights, LAMBDA f : f.lastUpdated = latest)
            \o SortByLastUpdated(updatedFlights, latest - 1)

\* a store that is never cut
KeepEverything(updatedFlights, latest) == updatedFlights

\* if (updatedFlights.length > MAX_FLIGHTS) sort and slice(0, MAX_FLIGHTS)
KeepMostRecent(updatedFlights, latest) ==
    IF Len(updatedFlights) > MAX_FLIGHTS
    THEN Slice(SortByLastUpdated(updatedFlights, latest), 0, MAX_FLIGHTS)
    ELSE updatedFlights

\* the updater of the flights_update handler
mergeFlights(prevFlights, newFlights, time) ==
    KeepMostRecent(SetAll(prevFlights, newFlights, time), time)

\* prev.map(f => f.flightId === flightId ? { ...f, color } : f)
updateFlightColor(prev, flightId, color) ==
    [i \in 1..Len(prev) |->
        IF prev[i].flightId = flightId
        THEN [prev[i] EXCEPT !.color = color] ELSE prev[i]]

StoreBefore(op, batch, id) ==
    [op |-> op, flights |-> storeFlights, batch |-> batch, id |-> id,
     time |-> storeNow]

InitStore ==
    /\ storeFlights = <<>>
    /\ storeNow = 0
    /\ storeLast = [op |-> "mount", flights |-> <<>>, batch |-> <<>>,
                    id |-> 0, time |-> 0]

\* socket.on('flights_update'): setFlights with the updater
FlightsUpdate ==
    /\ focus = "store"
    /\ \E newFlights \in StoreBatches \cup {<<>>} :
          /\ storeFlights' = mergeFlights(storeFlights, newFlights, storeNow)
          /\ storeLast' = StoreBefore("flights_update", newFlights, 0)
    /\ UNCHANGED storeNow
    /\ UNCHANGED <<focus, serverVars, ghostVars, serviceVars, geoVars,
                   pollVars, managerVars, modeVars>>

\* the user picks a colour for a flight
UpdateFlightColor ==
    /\ focus = "store"
    /\ \E flightId \in StoreIds, color \in UserColors :
          /\ storeFlights' = updateFlightColor(storeFlights, flightId, color)
          /\ storeLast' = StoreBefore("updateFlightColor", <<>>, flightId)
    /\ UNCHANGED storeNow
    /\ UNCHANGED <<focus, serverVars, ghostVars, serviceVars, geoVars,
                   pollVars, managerVars, modeVars>>

\* a millisecond of the browser's clock passes
AdvanceStoreClock ==
    /\ focus = "store"
    /\ storeNow < MaxStoreTime
    /\ storeNow' = storeNow + 1
    /\ UNCHANGED <<storeFlights, storeLast>>
    /\ UNCHANGED <<focus, serverVars, ghostVars, serviceVars, geoVars,
                   pollVars, managerVars, modeVars>>

----------------------------------------------------------------------------
(* useFlightData over HTTP: fetching by mode.  The cleanup of the previous *)
(* effect, the render and the new effect of a mode change are one step;    *)
(* a request answers in a step of its own                                  *)

RunModes == {"OFFLINE", "SNAP", "REALTIME"}

\* what FlightAPIService.getFlights can resolve to
PollData == {<<>>, <<1>>}

\* mounted with the mode useSystemMode starts in: the effect has run its
\* OFFLINE branch
InitPoll ==
    /\ pollMode = "OFFLINE"
    /\ pollFlights = <<>>
    /\ pollIntervalRef = NoTimer
    /\ pollTimers = {}
    /\ isMountedRef = TRUE
    /\ snapFetchCompletedRef = FALSE
    /\ pollFetches = <<>>

\* the mode prop changes: the cleanup the previous effect returned (the
\* OFFLINE branch returns none), then the effect for the new mode with its
\* first fetchFlights call, which passes both early returns
SetMode ==
    /\ focus = "poll"
    /\ pollMode # "unmounted"
    /\ \E mode \in RunModes \ {pollMode} :
          LET live == ClearTimer(pollTimers, pollIntervalRef)
              t == NewTimer(live)
          IN  /\ mode # "OFFLINE" => Len(pollFetches) < MaxFetches
              /\ pollMode' = mode
              /\ isMountedRef' = TRUE
              /\ IF mode = "OFFLINE"
                 THEN /\ pollFlights' = <<>>
                      /\ snapFetchCompletedRef' = FALSE
                      /\ pollIntervalRef' = NoTimer
                      /\ pollTimers' = live
                      /\ UNCHANGED pollFetches
                 ELSE /\ snapFetchCompletedRef' =
                            IF mode = "SNAP" THEN FALSE
                            ELSE snapFetchCompletedRef
                      /\ pollFetches' =
                            Append(pollFetches, [isSnap |-> mode = "SNAP"])
                      /\ IF mode = "REALTIME"
                         THEN /\ pollIntervalRef' = t
                              /\ pollTimers' = live \cup {t}
                         ELSE /\ pollIntervalRef' = NoTimer
                              /\ pollTimers' = live
                      /\ UNCHANGED pollFlights
    /\ UNCHANGED <<focus, serverVars, ghostVars, serviceVars, geoVars,
                   storeVars, managerVars, modeVars>>

\* a firing of the polling timer: fetchFlights of the REALTIME render, up
\* to its await
PollTimerFires ==
    /\ focus = "poll"
    /\ pollTimers # {}
    /\ Len(pollFetches) < MaxFetches
    /\ pollFetches' = IF isMountedRef
                      THEN Append(pollFetches, [isSnap |-> FALSE])
                      ELSE pollFetches
    /\ UNCHANGED <<pollMode, pollFlights, pollIntervalRef, pollTimers,
                   isMountedRef, snapFetchCompletedRef>>
    /\ UNCHANGED <<focus, serverVars, ghostVars, serviceVars, geoVars,
                   storeVars, managerVars, modeVars>>

\* getFlights resolves: fetchFlights after its await
FetchResolves ==
    /\ focus = "poll"
    /\ \E i \in 1..Len(pollFetches), data \in PollData :
          /\ pollFetches' = RemoveAt(pollFetches, i)
          /\ IF isMountedRef
             THEN /\ pollFlights' = data
                  /\ snapFetchCompletedRef' =
                        IF pollFetches[i].isSnap THEN TRUE
                        ELSE snapFetchCompletedRef
             ELSE UNCHANGED <<pollFlights, snapFetchCompletedRef>>
    /\ UNCHANGED <<pollMode, pollIntervalRef, pollTimers, isMountedRef>>
    /\ UNCHANGED <<focus, serverVars, ghostVars, serviceVars, geoVars,
                   storeVars, managerVars, modeVars>>

\* getFlights rejects: the catch block only sets the error
FetchRejects ==
    /\ focus = "poll"
    /\ \E i \in 1..Len(pollFetches) :
          pollFetches' = RemoveAt(pollFetches, i)
    /\ UNCHANGED <<pollMode, pollFlights, pollIntervalRef, pollTimers,
                   isMountedRef, snapFetchCompletedRef>>
    /\ UNCHANGED <<focus, serverVars, ghostVars, serviceVars, geoVars,
                   storeVars, managerVars, modeVars>>

\* the component unmounts: the cleanup of the last effect, which the
\* OFFLINE branch does not return
Unmount ==
    /\ focus = "poll"
    /\ pollMode # "unmounted"
    /\ pollMode' = "unmounted"
    /\ IF pollMode = "OFFLINE"
       THEN UNCHANGED <<isMountedRef, pollIntervalRef, pollTimers>>
       ELSE /\ isMountedRef' = FALSE
            /\ pollTimers' = ClearTimer(pollTimers, pollIntervalRef)
            /\ pollIntervalRef' = NoTimer
    /\ UNCHANGED <<pollFlights, snapFetchCompletedRef, pollFetches>>
    /\ UNCHANGED <<focus, serverVars, ghostVars, serviceVars, geoVars,
                   storeVars, managerVars, modeVars>>

\* clearFlights, as the hook returns it
ClearFlights ==
    /\ focus = "poll"
    /\ pollMode # "unmounted"
    /\ pollFlights' = <<>>
    /\ snapFetchCompletedRef' = FALSE
    /\ UNCHANGED <<pollMode, pollIntervalRef, pollTimers, isMountedRef,
                   pollFetches>>
    /\ UNCHANGED <<focus, serverVars, ghostVars, serviceVars, geoVars,
                   storeVars, managerVars, modeVars>>

----------------------------------------------------------------------------
(* ServiceManager over BaseFlightService: a call of switchService runs to  *)
(* its next await in one step; cleanup and initialize of a service answer  *)
(* in steps of their own, so that calls of two requests interleave         *)

NoService == 0

\* this.currentService?.mode || null
getCurrentMode ==
    IF currentService = NoService THEN "null"
    ELSE services[currentService].mode

\* container.createFlightService(newMode): a new instance every time; timer
\* says whether the interval of the instance is live
createFlightService(newMode) ==
    [mode |-> newMode, isRunning |-> FALSE, timer |-> FALSE]

\* the services that are running with a live interval
RunningWithTimer(svcs) ==
    {s \in 1..Len(svcs) : svcs[s].isRunning /\ svcs[s].timer}

\* the synchronous start of cleanup(): clearInterval
ClearIntervalOf(svcs, s) == [svcs EXCEPT ![s].timer = FALSE]

\* a call that has created its service and waits for start(): previous is
\* the service it stopped before, if any
Starting(newMode, previous) ==
    [op |-> "switch", newMode |-> newMode, pc |-> "starting",
     service |-> Len(services) + 1, previous |-> previous,
     previousRunningAtCreate |->
         IF previous = NoService THEN FALSE
         ELSE services'[previous].isRunning]

InitManager ==
    /\ currentService = NoService
    /\ services = <<>>
    /\ managerCalls = <<>>
    /\ managerLast = [op |-> "new", newMode |-> "null",
                      currentMode |-> "null", previous |-> NoService,
                      previousRunning |-> FALSE,
                      previousRunningAtCreate |-> FALSE,
                      current |-> NoService, active |-> {},
                      stoppedCurrent |-> FALSE]

\* switchService(newMode) up to its first await that waits: stop() of a
\* service that is not running returns at once, and the call goes on to
\* create the new service and to start it
SwitchService ==
    /\ focus = "manager"
    /\ Len(managerCalls) < MaxSwitchCalls
    /\ Len(services) + Len(managerCalls) < MaxServices
    /\ \E newMode \in RunModes :
          IF currentService # NoService /\ services[currentService].isRunning
          THEN /\ managerCalls' =
                     Append(managerCalls,
                            [op |-> "switch", newMode |-> newMode,
                             pc |-> "stopping", service |-> currentService,
                             previous |-> currentService,
                             previousRunningAtCreate |-> FALSE])
               /\ services' = ClearIntervalOf(services, currentService)
               /\ UNCHANGED currentService
          ELSE /\ services' = Append(services, createFlightService(newMode))
               /\ currentService' = Len(services) + 1
               /\ managerCalls' =
                     Append(managerCalls, Starting(newMode, currentService))
    /\ UNCHANGED managerLast
    /\ UNCHANGED <<focus, serverVars, ghostVars, serviceVars, geoVars,
                   storeVars, pollVars, modeVars>>

\* cleanup() of a stop resolves: isRunning = false; switchService goes on
\* to currentService = null, creates the new service and starts it
StopResolves ==
    /\ focus = "manager"
    /\ \E i \in 1..Len(managerCalls) :
          LET c == managerCalls[i]
              stopped == [services EXCEPT ![c.service].isRunning = FALSE]
          IN  /\ c.pc = "stopping"
              /\ IF c.op = "switch"
                 THEN /\ services' =
                            Append(stopped, createFlightService(c.newMode))
                      /\ currentService' = Len(services) + 1
                      /\ managerCalls' =
                            [managerCalls EXCEPT
                                ![i] = Starting(c.newMode, c.service)]
                 ELSE /\ services' = stopped
                      /\ managerCalls' = RemoveAt(managerCalls, i)
                      /\ UNCHANGED currentService
    /\ UNCHANGED managerLast
    /\ UNCHANGED <<focus, serverVars, ghostVars, serviceVars, geoVars,
                   storeVars, pollVars, modeVars>>

\* cleanup() throws: stop() throws, and the catch block of switchService
\* sets currentService = null and throws
StopRejects ==
    /\ focus = "manager"
    /\ \E i \in 1..Len(managerCalls) :
          LET c == managerCalls[i]
          IN  /\ c.pc = "stopping"
              /\ managerCalls' = RemoveAt(managerCalls, i)
              /\ IF c.op = "switch"
                 THEN /\ currentService' = NoService
                      /\ managerLast' =
                            [op |-> "switchFailed", newMode |-> c.newMode,
                             currentMode |-> getCurrentMode',
                             previous |-> c.previous,
                             previousRunning |->
                                 services[c.previous].isRunning,
                             previousRunningAtCreate |-> FALSE,
                             current |-> currentService',
                             active |-> RunningWithTimer(services),
                             stoppedCurrent |-> managerLast.stoppedCurrent]
                 ELSE UNCHANGED <<currentService, managerLast>>
    /\ UNCHANGED services
    /\ UNCHANGED <<focus, serverVars, ghostVars, serviceVars, geoVars,
                   storeVars, pollVars, modeVars>>

\* initialize() of a start resolves: isRunning = true, and switchService
\* returns
StartResolves ==
    /\ focus = "manager"
    /\ \E i \in 1..Len(managerCalls) :
          LET c == managerCalls[i]
          IN  /\ c.pc = "starting"
              /\ services' =
                    [services EXCEPT
                        ![c.service].isRunning = TRUE,
                        ![c.service].timer = (c.newMode # "OFFLINE")]
              /\ managerCalls' = RemoveAt(managerCalls, i)
              /\ managerLast' =
                    [op |-> "switchReturned", newMode |-> c.newMode,
                     currentMode |-> getCurrentMode,
                     previous |-> c.previous,
                     previousRunning |->
                         IF c.previous = NoService THEN FALSE
                         ELSE services'[c.previous].isRunning,
                     previousRunningAtCreate |-> c.previousRunningAtCreate,
                     current |-> currentService,
                     active |-> RunningWithTimer(services'),
                     stoppedCurrent |-> managerLast.stoppedCurrent]
    /\ UNCHANGED currentService
    /\ UNCHANGED <<focus, serverVars, ghostVars, serviceVars, geoVars,
                   storeVars, pollVars, modeVars>>

\* initialize() throws: start() throws, and the catch block of
\* switchService sets currentService = null and throws
StartRejects ==
    /\ focus = "manager"
    /\ \E i \in 1..Len(managerCalls) :
          LET c == managerCalls[i]
          IN  /\ c.pc = "starting"
              /\ managerCalls' = RemoveAt(managerCalls, i)
              /\ currentService' = NoService
              /\ managerLast' =
                    [op |-> "switchFailed", newMode |-> c.newMode,
                     currentMode |-> getCurrentMode',
                     previous |-> c.previous,
                     previousRunning |->
                         IF c.previous = NoService THEN FALSE
                         ELSE services[c.previous].isRunning,
                     previousRunningAtCreate |-> c.previousRunningAtCreate,
                     current |-> currentService',
                     active |-> RunningWithTimer(services),
                     stoppedCurrent |-> managerLast.stoppedCurrent]
    /\ UNCHANGED services
    /\ UNCHANGED <<focus, serverVars, ghostVars, serviceVars, geoVars,
                   storeVars, pollVars, modeVars>>

\* stopCurrentService: stop() is not awaited; managerLast remembers that
\* it was called
StopCurrentService ==
    /\ focus = "manager"
    /\ currentService # NoService
    /\ Len(managerCalls) < MaxSwitchCalls
    /\ currentService' = NoService
    /\ managerCalls' =
          IF services[currentService].isRunning
          THEN Append(managerCalls,
                      [op |-> "stopCurrent", newMode |-> "null",
                       pc |-> "stopping", service |-> currentService,
                       previous |-> currentService,
                       previousRunningAtCreate |-> FALSE])
          ELSE managerCalls
    /\ services' = IF services[currentService].isRunning
                   THEN ClearIntervalOf(services, currentService)
                   ELSE services
    /\ managerLast' = [managerLast EXCEPT !.stoppedCurrent = TRUE]
    /\ UNCHANGED <<focus, serverVars, ghostVars, serviceVars, geoVars,
                   storeVars, pollVars, modeVars>>

----------------------------------------------------------------------------
(* useSystemMode: currentMode, loading and error are React states; the      *)
(* changeMode callback reads the currentMode and loading of the render it   *)
(* was created in.  A request answers in a step of its own                 *)

\* error === null
NoError == "null"

\* the message of the APIError that fetchJSON throws
RequestFailed == "Request failed"

ModeBefore(op, newMode, thrown) ==
    [op |-> op, newMode |-> newMode, currentMode |-> sysCurrentMode,
     loading |-> sysLoading, error |-> sysError, rendered |-> sysRendered,
     changes |-> sysChanges, thrown |-> thrown]

\* the first render, and the mount effect has called fetchCurrentMode
InitMode ==
    /\ sysCurrentMode = "OFFLINE"
    /\ sysLoading = FALSE
    /\ sysError = NoError
    /\ sysRendered = [currentMode |-> "OFFLINE", loading |-> FALSE]
    /\ sysChanges = <<>>
    /\ sysFetches = 1
    /\ sysLast = [op |-> "mount", newMode |-> "OFFLINE",
                  currentMode |-> "OFFLINE", loading |-> FALSE,
                  error |-> NoError,
                  rendered |-> [currentMode |-> "OFFLINE", loading |-> FALSE],
                  changes |-> <<>>, thrown |-> FALSE]

\* changeMode(newMode) up to its await: the guard on the values of the
\* render, setLoading(true), setError(null), the POST request
ChangeMode ==
    /\ focus = "mode"
    /\ \E newMode \in RunModes :
          /\ sysLast' = ModeBefore("changeMode", newMode, FALSE)
          /\ IF newMode = sysRendered.currentMode \/ sysRendered.loading
             THEN UNCHANGED <<sysLoading, sysError, sysChanges>>
             ELSE /\ Len(sysChanges) < MaxModeChanges
                  /\ sysLoading' = TRUE
                  /\ sysError' = NoError
                  /\ sysChanges' = Append(sysChanges, newMode)
    /\ UNCHANGED <<sysCurrentMode, sysRendered, sysFetches>>
    /\ UNCHANGED <<focus, serverVars, ghostVars, serviceVars, geoVars,
                   storeVars, pollVars, managerVars>>

\* the POST answers 2xx: setCurrentMode(newMode), finally setLoading(false)
ChangeResolves ==
    /\ focus = "mode"
    /\ \E i \in 1..Len(sysChanges) :
          /\ sysLast' = ModeBefore("changeResolved", sysChanges[i], FALSE)
          /\ sysCurrentMode' = sysChanges[i]
          /\ sysChanges' = RemoveAt(sysChanges, i)
    /\ sysLoading' = FALSE
    /\ UNCHANGED <<sysError, sysRendered, sysFetches>>
    /\ UNCHANGED <<focus, serverVars, ghostVars, serviceVars, geoVars,
                   storeVars, pollVars, managerVars>>

\* the POST fails: setError(message), throw err, finally setLoading(false)
ChangeRejects ==
    /\ focus = "mode"
    /\ \E i \in 1..Len(sysChanges) :
          /\ sysLast' = ModeBefore("changeRejected", sysChanges[i], TRUE)
          /\ sysChanges' = RemoveAt(sysChanges, i)
    /\ sysError' = RequestFailed
    /\ sysLoading' = FALSE
    /\ UNCHANGED <<sysCurrentMode, sysRendered, sysFetches>>
    /\ UNCHANGED <<focus, serverVars, ghostVars, serviceVars, geoVars,
                   storeVars, pollVars, managerVars>>

\* the interval of the effect calls fetchCurrentMode
FetchCurrentMode ==
    /\ focus = "mode"
    /\ sysFetches < MaxModeFetches
    /\ sysLast' = ModeBefore("fetchCurrentMode", sysCurrentMode, FALSE)
    /\ sysFetches' = sysFetches + 1
    /\ UNCHANGED <<sysCurrentMode, sysLoading, sysError, sysRendered,
                   sysChanges>>
    /\ UNCHANGED <<focus, serverVars, ghostVars, serviceVars, geoVars,
                   storeVars, pollVars, managerVars>>

\* getCurrentMode answers: setCurrentMode(mode)
FetchModeResolves ==
    /\ focus = "mode"
    /\ sysFetches > 0
    /\ \E mode \in RunModes :
          /\ sysLast' = ModeBefore("fetchResolved", mode, FALSE)
          /\ sysCurrentMode' = mode
    /\ sysFetches' = sysFetches - 1
    /\ UNCHANGED <<sysLoading, sysError, sysRendered, sysChanges>>
    /\ UNCHANGED <<focus, serverVars, ghostVars, serviceVars, geoVars,
                   storeVars, pollVars, managerVars>>

\* getCurrentMode fails: setCurrentMode('OFFLINE')
FetchModeRejects ==
    /\ focus = "mode"
    /\ sysFetches > 0
    /\ sysLast' = ModeBefore("fetchRejected", "OFFLINE", FALSE)
    /\ sysCurrentMode' = "OFFLINE"
    /\ sysFetches' = sysFetches - 1
    /\ UNCHANGED <<sysLoading, sysError, sysRendered, sysChanges>>
    /\ UNCHANGED <<focus, serverVars, ghostVars, serviceVars, geoVars,
                   storeVars, pollVars, managerVars>>

\* React renders the hook: useCallback makes a changeMode over the new
\* currentMode and loading
RenderMode ==
    /\ focus = "mode"
    /\ sysRendered # [currentMode |-> sysCurrentMode, loading |-> sysLoading]
    /\ sysRendered' = [currentMode |-> sysCurrentMode, loading |-> sysLoading]
    /\ UNCHANGED <<sysCurrentMode, sysLoading, sysError, sysChanges,
                   sysFetches, sysLast>>
    /\ UNCHANGED <<focus, serverVars, ghostVars, serviceVars, geoVars,
                   storeVars, pollVars, managerVars>>

----------------------------------------------------------------------------
(* Specifications *)

Units == {"server", "ghost", "service", "geo", "store", "poll", "manager", "mode"}

Init ==
    /\ focus \in Units
    /\ InitServer /\ InitGhost /\ InitService /\ InitGeo /\ InitStore
    /\ InitPoll /\ InitManager /\ InitMode

Next ==
    \/ \E file \in Files : LoadDataset(file)
    \/ StartStreaming
    \/ SendNextBatch
    \/ AnimationTick
    \/ StopStreaming
    \/ StopStreamingClear
    \/ ClientConnect
    \/ ClientDisconnect
    \/ AdvanceClock
    \/ \E id \in GhostIds, t \in SearchTypes : OpenSearchArea(id, t)
    \/ \E id \in GhostIds : CloseSearchArea(id)
    \/ \E id \in GhostIds, t \in SearchTypes : ToggleSearchArea(id, t)
    \/ ClearAllSearchAreas
    \/ Render
    \/ GhostTick
    \/ AdvanceGhostClock
    \/ FlightsPropChange
    \/ ServiceStart
    \/ \E r \in FetchResults : ServiceStartFetched(r)
    \/ \E ok \in BOOLEAN : ServiceStartWritten(ok)
    \/ ServiceTick
    \/ \E r \in FetchResults : ServiceTickFetched(r)
    \/ \E ok \in BOOLEAN : ServiceTickWritten(ok)
    \/ ServiceStop
    \/ \E ok \in BOOLEAN : ServiceStopDeleted(ok)
    \/ CallCalculateSearchRadius
    \/ CallGetGhostPosition
    \/ CallPredictCurrentPosition
    \/ CallUpdateFlightPosition
    \/ CallSteps
    \/ FlightsUpdate
    \/ UpdateFlightColor
    \/ AdvanceStoreClock
    \/ SetMode
    \/ PollTimerFires
    \/ FetchResolves
    \/ FetchRejects
    \/ ClearFlights
    \/ Unmount
    \/ SwitchService
    \/ StopResolves
    \/ StopRejects
    \/ StartResolves
    \/ StartRejects
    \/ StopCurrentService
    \/ ChangeMode
    \/ ChangeResolves
    \/ ChangeRejects
    \/ FetchCurrentMode
    \/ FetchModeResolves
    \/ FetchModeRejects
    \/ RenderMode

Spec == Init /\ [][Next]_vars

----------------------------------------------------------------------------
(* Properties of the active-flight registry *)

Ids(reg) == {reg[i].flightId : i \in 1..Len(reg)}

Count(reg, id) == Cardinality({i \in 1..Len(reg) : reg[i].flightId = id})

Entry(reg, id) == reg[CHOOSE i \in 1..Len(reg) : reg[i].flightId = id]

\* 10 * occupancy against 10 * (capacity * 0.8)
AtWatermark(reg) == Len(reg) * 10 >= MAX_FLIGHTS_TO_SEND * 8

\* the last operation was a refill that passed both early returns
RefillRan ==
    /\ last.op = "sendNextBatch"
    /\ last.clients > 0
    /\ ~AtWatermark(last.activeFlights)

\* the valid flights of the batch the last refill read
LastBatch ==
    MapStates(Slice(allStates, last.currentBatchIndex,
                    Min(last.currentBatchIndex + BATCH_SIZE, Len(allStates))))

\* the ids the last refill inserted
InsertedIds == Ids(LastBatch) \ Ids(last.activeFlights)

\* by how many entries the last refill went over capacity
Overflow ==
    Len(last.activeFlights) + Cardinality(InsertedIds) - MAX_FLIGHTS_TO_SEND

\* C1: the registry never holds more than MAX_FLIGHTS_TO_SEND entries
C1_RegistryBounded == Len(activeFlights) <= MAX_FLIGHTS_TO_SEND

\* a refill that had to evict to stay within capacity
C1_Witness ==
    /\ RefillRan
    /\ Overflow > 0
    /\ Len(activeFlights) = MAX_FLIGHTS_TO_SEND

\* C2 as stated: after a refill, every id of the batch that was already in
\* the registry is there exactly once, with the latitude and longitude it had
C2_ExistingEntryKept ==
    RefillRan =>
        \A id \in Ids(LastBatch) \cap Ids(last.activeFlights) :
            /\ Count(activeFlights, id) = 1
            /\ Entry(activeFlights, id).latitude
                  = Entry(last.activeFlights, id).latitude
            /\ Entry(activeFlights, id).longitude
                  = Entry(last.activeFlights, id).longitude

\* C2 amended: after a refill no id is in the registry twice, and an id of
\* the batch that was already in the registry either keeps its entry with
\* the position it had, or is among the entries the refill evicted for
\* capacity
C2_ExistingEntryKeptOrEvicted ==
    RefillRan =>
        /\ \A id \in Ids(activeFlights) : Count(activeFlights, id) = 1
        /\ \A id \in Ids(LastBatch) \cap Ids(last.activeFlights) :
              IF id \in Ids(activeFlights)
              THEN Entry(activeFlights, id) = Entry(last.activeFlights, id)
              ELSE /\ Overflow > 0
                   /\ \E i \in 1..Overflow : last.activeFlights[i].flightId = id

\* a refill met an id again whose entry had moved away from the position of
\* the dataset row, and the entry kept its position
C2_Witness ==
    /\ RefillRan
    /\ \E id \in Ids(LastBatch) \cap Ids(last.activeFlights) :
          /\ id \in Ids(activeFlights)
          /\ Entry(activeFlights, id).longitude
                # Entry(LastBatch, id).longitude

\* C3: a refill that goes over capacity evicts exactly the Overflow earliest
\* inserted entries, and none of the entries it inserted itself
C3_EvictsOldest ==
    (RefillRan /\ Overflow > 0) =>
        /\ Len(activeFlights) = MAX_FLIGHTS_TO_SEND
        /\ Overflow <= Len(last.activeFlights)
        /\ Ids(last.activeFlights) \ Ids(activeFlights)
              = {last.activeFlights[i].flightId : i \in 1..Overflow}
        /\ SubSeq(activeFlights, 1, Len(last.activeFlights) - Overflow)
              = SubSeq(last.activeFlights, Overflow + 1,
                       Len(last.activeFlights))
        /\ InsertedIds \subseteq Ids(activeFlights)

C3_Witness ==
    /\ RefillRan
    /\ Overflow > 0
    /\ Cardinality(InsertedIds) > Overflow

\* C4: a refill at or above the low watermark changes neither the registry,
\* its order, nor the batch cursor; a refill that changes the registry
\* started below the watermark
C4_NoRefillAtWatermark ==
    last.op = "sendNextBatch" =>
        /\ AtWatermark(last.activeFlights) =>
              /\ activeFlights = last.activeFlights
              /\ currentBatchIndex = last.currentBatchIndex
        /\ activeFlights # last.activeFlights =>
              ~AtWatermark(last.activeFlights)

\* the refill timer fired with a listener connected and the registry exactly
\* at the watermark, below capacity
C4_Witness ==
    /\ last.op = "sendNextBatch"
    /\ last.clients > 0
    /\ AtWatermark(last.activeFlights)
    /\ Len(last.activeFlights) < MAX_FLIGHTS_TO_SEND
    /\ activeFlights = last.activeFlights

\* C5 as stated: every animation tick advances every active flight by the
\* time elapsed since the previous tick, whether or not a listener is
\* connected
C5_TickAlwaysAdvances ==
    last.op = "animationTick" =>
        activeFlights = UpdateAll(last.activeFlights, last.dt)

----------------------------------------------------------------------------
(* Properties of the ghost tracker *)

AreasOf(areas, id) == {i \in 1..Len(areas) : areas[i].originalId = id}

\* C6 as stated: no flight id ever has more than one search area
C6_OneAreaPerId ==
    \A id \in GhostIds : Cardinality(AreasOf(searchAreas, id)) <= 1

\* C7 as stated: two toggles in a row on an id that had no area leave the
\* search areas as they were, with no area for the id
C7_ToggleTwice ==
    ( /\ ghostLast.op = "toggle"
      /\ ghostLast.prevOp = "toggle"
      /\ ghostLast.prevId = ghostLast.id
      /\ ~isFlightTracked(ghostLast.id, ghostLast.prevAreas)
      /\ ~isFlightTracked(ghostLast.id, ghostLast.prevRendered) )
    => /\ searchAreas = ghostLast.prevAreas
       /\ getSearchAreaStatus(ghostLast.id, searchAreas) = "NONE"

\* the timers that exist are the one the handle names, if any
OneGhostTimer ==
    /\ Cardinality(ghostTimers) <= 1
    /\ ghostTimers = IF intervalRef = NoTimer THEN {} ELSE {intervalRef}

\* C8 as stated: the animation timer runs exactly while a search area exists
C8_TimerIffAreas ==
    /\ (intervalRef # NoTimer) <=> (Len(searchAreas) > 0)
    /\ OneGhostTimer

\* C8 amended: the animation timer runs exactly while the last committed
\* render had a search area, so it follows the areas at the next render; at
\* no time do two timers exist
C8_TimerIffRenderedAreas ==
    /\ (intervalRef # NoTimer) <=> (Len(renderedAreas) > 0)
    /\ OneGhostTimer

\* the last area was removed and the render after it cancelled the timer
C8_Witness ==
    /\ ghostLast.op \in {"close", "toggle", "clearAll"}
    /\ Len(ghostLast.areas) > 0
    /\ Len(ghostLast.rendered) > 0
    /\ ghostLast.renderedBetween
    /\ renderedAreas = <<>>
    /\ intervalRef = NoTimer
    /\ ghostTimers = {}

----------------------------------------------------------------------------
(* Properties of stopping *)

Stopped ==
    /\ pc = "idle"
    /\ streamInterval = NoTimer
    /\ animationInterval = NoTimer

\* C9: stopStreaming on a stopped simulator, clearAnimationInterval on a
\* stopped animation clock and stop() on a service that is not running leave
\* the state as it was
C9_StopIdempotent ==
    /\ ( /\ last.op = "stopStreaming"
         /\ pc = "idle"
         /\ last.streamInterval = NoTimer
         /\ last.animationInterval = NoTimer )
       => /\ activeFlights = last.activeFlights
          /\ currentBatchIndex = last.currentBatchIndex
          /\ streamInterval = NoTimer
          /\ animationInterval = NoTimer
          /\ streamTimers = last.streamTimers
          /\ animTimers = last.animTimers
    /\ intervalRef = NoTimer
       => clearAnimationInterval(intervalRef, ghostTimers)
             = [ref |-> intervalRef, live |-> ghostTimers]
    /\ (svcLast.op = "stop" /\ ~svcLast.isRunning)
       => /\ isRunning = svcLast.isRunning
          /\ intervalId = svcLast.intervalId
          /\ svcTimers = svcLast.svcTimers
          /\ svcPc = svcLast.svcPc
          /\ repository = svcLast.repository

\* stop() was called on a service that is not running while flights were
\* still in the repository
C9_Witness ==
    /\ svcLast.op = "stop"
    /\ ~svcLast.isRunning
    /\ repository # {}
    /\ isRunning = FALSE

\* C10: when stopStreaming clears the registry both handles are null and no
\* timer of the service is left, and while the service is stopped no step
\* changes the registry or emits a flights_update
C10_NoTickAfterStop ==
    /\ [](pc = "clearing" =>
            /\ streamInterval = NoTimer
            /\ animationInterval = NoTimer
            /\ streamTimers = {}
            /\ animTimers = {})
    /\ [][Stopped => (activeFlights' = activeFlights /\ emitted' = <<>>)]_vars

\* stopStreaming has returned from a run that had flights in the registry
C10_Witness ==
    /\ last.op = "stopStreaming"
    /\ Stopped
    /\ last.streamInterval # NoTimer
    /\ last.animationInterval # NoTimer
    /\ Len(last.activeFlights) > 0
    /\ activeFlights = <<>>

----------------------------------------------------------------------------
(* Properties of the search radius and of the connecting line *)

\* C11: at the default margin the radius of a search area at a clock
\* reading is ((reading - frozenAt) / 1000) * velocity * 1.1 metres, a
\* missing velocity counting as 0: ten times the radius in millimetres is
\* eleven times elapsed milliseconds times velocity, and 50 m/s over 20 s
\* gives 1100 m
C11_RadiusFormula ==
    call.fn = "calculateSearchRadius" =>
        LET elapsed == call.currentTime - call.area.frozenAt
            velocity == IF call.area.velocity = Null
                        THEN 0 ELSE call.area.velocity
        IN  /\ call.radius * 10 = elapsed * velocity * 11
            /\ (velocity = 50 /\ elapsed = 20000) => call.radius = 1100000

\* the radius of an area frozen at 0 with 50 m/s, read at 20 s
C11_Witness ==
    /\ call.fn = "calculateSearchRadius"
    /\ call.area.frozenAt = 0
    /\ call.area.velocity = 50
    /\ call.currentTime = 20000
    /\ call.radius = 1100000

\* C12: the radius of a search area is 0 at the reading frozenAt, and of
\* two successive readings of the same area that are not before frozenAt
\* the later one gives no smaller radius
C12_RadiusMonotone ==
    call.fn = "calculateSearchRadius" =>
        /\ call.currentTime = call.area.frozenAt => call.radius = 0
        /\ \A i \in 1..Len(call.prev) :
              (/\ call.area.frozenAt <= call.prev[i].currentTime
               /\ call.prev[i].currentTime <= call.currentTime)
                 => call.prev[i].radius <= call.radius

\* an area that moves was read at frozenAt and then at a later reading, and
\* its radius grew from 0
C12_Witness ==
    /\ call.fn = "calculateSearchRadius"
    /\ call.area.frozenAt = 1000
    /\ call.prev # <<>>
    /\ call.prev[1].currentTime = call.area.frozenAt
    /\ call.prev[1].radius = 0
    /\ call.currentTime > call.area.frozenAt
    /\ call.radius > 0

\* C13: the connecting line of a search area ends at the position of a
\* flight of the current collection whose flightId is the area's originalId
\* when there is one, and otherwise at the position predicted from the
\* frozen latitude, longitude, velocity and heading over the time since
\* frozenAt
C13_LineTarget ==
    call.fn = "getGhostPosition" =>
        LET flights == call.currentFlights
            live == {i \in 1..Len(flights) :
                        flights[i].flightId = call.area.originalId}
            velocity == IF call.area.velocity = Null
                        THEN 0 ELSE call.area.velocity
            heading == IF call.area.trueTrack = Null
                       THEN 0 ELSE call.area.trueTrack
        IN  IF live # {}
            THEN \E i \in live :
                    call.position
                       = <<flights[i].longitude, flights[i].latitude>>
            ELSE call.position
                    = predictCurrentPosition(
                          call.area.latitude, call.area.longitude, velocity,
                          heading, call.animationClock - call.area.frozenAt)

\* the tracked flight is in the feed, away from where the prediction puts
\* it, and the line ends at the flight
C13_Witness ==
    /\ call.fn = "getGhostPosition"
    /\ \E i \in 1..Len(call.currentFlights) :
          /\ call.currentFlights[i].flightId = call.area.originalId
          /\ call.position = <<call.currentFlights[i].longitude,
                               call.currentFlights[i].latitude>>
    /\ call.position
          # predictCurrentPosition(
                call.area.latitude, call.area.longitude, 50, 90,
                call.animationClock - call.area.frozenAt)
    /\ call.area.velocity = 50
    /\ call.area.trueTrack = 90
    /\ call.animationClock > call.area.frozenAt

----------------------------------------------------------------------------
(* Properties of loading the dataset *)

LastSlice ==
    Slice(allStates, last.currentBatchIndex,
          Min(last.currentBatchIndex + BATCH_SIZE, Len(allStates)))

Complete(state) ==
    state.icao24 # Null /\ state.lat # Null /\ state.lon # Null

\* C15: no state without latitude or longitude is in the loaded dataset, no
\* flight without id, latitude or longitude is in the registry, and a refill
\* that evicts nothing leaves every complete state of its batch in the
\* registry, whatever incomplete states the batch holds
C15_NoIncompleteRecord ==
    /\ \A i \in 1..Len(allStates) :
          allStates[i].lat # Null /\ allStates[i].lon # Null
    /\ \A i \in 1..Len(activeFlights) :
          /\ activeFlights[i].flightId # Null
          /\ activeFlights[i].latitude # Null
          /\ activeFlights[i].longitude # Null
    /\ (RefillRan /\ Overflow <= 0) =>
          \A i \in 1..Len(LastSlice) :
             Complete(LastSlice[i])
                => LastSlice[i].icao24 \in Ids(activeFlights)

\* a refill read a state without id and after it a complete state, and the
\* flight of the complete state is new in the registry
C15_Witness ==
    /\ RefillRan
    /\ \E j, k \in 1..Len(LastSlice) :
          /\ j < k
          /\ LastSlice[j].icao24 = Null
          /\ Complete(LastSlice[k])
          /\ LastSlice[k].icao24 \in Ids(activeFlights)
          /\ LastSlice[k].icao24 \notin Ids(last.activeFlights)

----------------------------------------------------------------------------
(* Properties of the position functions *)

InRange(lon, lat) ==
    /\ lon > -180000000
    /\ lon <= 180000000
    /\ lat >= -90000000
    /\ lat <= 90000000

\* C16: the position a tick step of the server returns and the position the
\* ghost prediction returns have a longitude in (-180, 180] and a latitude
\* in [-90, 90], whatever the heading, the velocity and the start
C16_PositionInRange ==
    /\ call.fn = "updateFlightPosition"
          => InRange(call.result.longitude, call.result.latitude)
    /\ call.fn = "predictCurrentPosition"
          => InRange(call.position[1], call.position[2])

\* the id belongs to states of the dataset that have no heading
HeadingUndefined(id) ==
    /\ \E i \in 1..Len(allStates) : allStates[i].icao24 = id
    /\ \A i \in 1..Len(allStates) :
          allStates[i].icao24 = id => allStates[i].heading = Null

\* the last operation was an animation tick that was processed
TickRan == last.op = "animationTick" /\ last.clients > 0

SamePosition(f, g) ==
    f.latitude = g.latitude /\ f.longitude = g.longitude

\* C17: a tick step returns a flight without velocity or without heading
\* at the latitude and longitude it had; a processed animation tick keeps
\* every flight of the registry, leaves those with velocity 0 and those
\* whose heading is undefined where they were, and in the same tick moves
\* the flights that have a velocity and a heading other than 0
C17_StationaryFlightsKept ==
    /\ (/\ call.fn = "updateFlightPosition"
        /\ \/ call.flight.velocity = 0
           \/ call.flight.velocity = Null
           \/ call.flight.trueTrack = Null)
          => SamePosition(call.result, call.flight)
    /\ TickRan =>
          /\ Len(activeFlights) = Len(last.activeFlights)
          /\ \A i \in 1..Len(last.activeFlights) :
                LET before == last.activeFlights[i]
                    after == activeFlights[i]
                IN  /\ after.flightId = before.flightId
                    /\ (before.velocity = 0
                           \/ HeadingUndefined(before.flightId))
                          => SamePosition(after, before)
                    /\ (/\ last.dt > 0
                        /\ before.velocity > 0
                        /\ before.trueTrack # 0)
                          => ~SamePosition(after, before)

\* a processed tick over a registry with a flight of velocity 0 before a
\* flight that moves: the first stayed, the second moved
C17_Witness ==
    /\ TickRan
    /\ last.dt > 0
    /\ \E i, j \in 1..Len(last.activeFlights) :
          /\ i < j
          /\ last.activeFlights[i].velocity = 0
          /\ SamePosition(activeFlights[i], last.activeFlights[i])
          /\ last.activeFlights[j].velocity > 0
          /\ ~SamePosition(activeFlights[j], last.activeFlights[j])

\* C18: a processed animation tick with elapsed time above 0 leaves no
\* flight with a velocity above 0 and a defined heading in [0, 360), 0 being
\* north, at the position it had
C18_EveryMovingFlightAdvances ==
    (TickRan /\ last.dt > 0) =>
        \A i \in 1..Len(last.activeFlights) :
            LET before == last.activeFlights[i]
            IN  (/\ before.velocity > 0
                 /\ ~HeadingUndefined(before.flightId)
                 /\ before.trueTrack >= 0
                 /\ before.trueTrack < 360)
                   => ~SamePosition(activeFlights[i], before)

\* C19: for the same start, distance and bearing the tick step of the server
\* and calculateDestinationPoint of the client give the same position
C19_SamePositionFunction ==
    (/\ call.fn = "updateFlightPosition"
     /\ Truthy(call.flight.velocity)
     /\ call.flight.trueTrack # Null
     /\ Abs(call.flight.latitude) < 90000000)
       => <<call.result.longitude, call.result.latitude>>
             = calculateDestinationPoint(
                   call.flight.latitude, call.flight.longitude,
                   distanceOf(call.flight.velocity, call.dt),
                   call.flight.trueTrack)

\* C20: n tick steps of dt each end within a thousandth of a degree, in
\* latitude and in longitude, of where one tick step of n * dt ends
C20_StepsCompose ==
    call.fn = "steps" =>
        /\ Abs(call.stepwise.latitude - call.once.latitude) <= 1000
        /\ Abs(call.stepwise.longitude - call.once.longitude) <= 1000

----------------------------------------------------------------------------
(* Properties of the search areas against the feed and the reset *)

\* the area the last operation created, when it created one
CreatedArea == searchAreas[Len(searchAreas)]

AreaCreated ==
    /\ ghostLast.op \in {"open", "toggle"}
    /\ Len(searchAreas) = Len(ghostLast.areas) + 1

\* C23: a newly created search area has a zIndex strictly greater than the
\* zIndex of every area created before it, open or closed since, so the
\* areas open at one time have pairwise different zIndex values
C23_DepthIncreases ==
    /\ \A i \in 1..Len(searchAreas) :
          /\ searchAreas[i].zIndex < searchAreaDepthCounter
          /\ \A j \in 1..Len(searchAreas) :
                i < j => searchAreas[i].zIndex < searchAreas[j].zIndex
    /\ \A i \in 1..Len(renderedAreas) :
          renderedAreas[i].zIndex < searchAreaDepthCounter
    /\ AreaCreated =>
          /\ \A i \in 1..Len(ghostLast.areas) :
                ghostLast.areas[i].zIndex < CreatedArea.zIndex
          /\ \A i \in 1..Len(ghostLast.prevAreas) :
                ghostLast.prevAreas[i].zIndex < CreatedArea.zIndex
          /\ \A i \in 1..Len(ghostLast.rendered) :
                ghostLast.rendered[i].zIndex < CreatedArea.zIndex

\* an area was created while an older one is open, and the two differ in
\* zIndex
C23_Witness ==
    /\ AreaCreated
    /\ Len(searchAreas) = 2
    /\ searchAreas[1].zIndex = 1
    /\ searchAreas[2].zIndex = 2

\* the feed has no flight with the id of the area
Orphaned(area) ==
    \A j \in 1..Len(flightsRef) : flightsRef[j].flightId # area.originalId

\* C24: a change of the feed leaves every search area as it was, frozen
\* position, velocity, heading and frozenAt included; the connecting line
\* of an area whose flight is not in the feed ends at the predicted
\* position at every clock value; and opening an area for an id that is
\* not in the feed creates the area
C24_AreaIndependentOfFeed ==
    /\ ghostLast.op = "flights" =>
          /\ searchAreas = ghostLast.areas
          /\ ~ghostLast.renderedBetween => renderedAreas = ghostLast.rendered
    /\ \A i \in 1..Len(renderedAreas) :
          Orphaned(renderedAreas[i]) =>
              getTargetPosition(renderedAreas[i])
                 = predictCurrentPosition(
                       renderedAreas[i].latitude, renderedAreas[i].longitude,
                       OrZero(renderedAreas[i].velocity),
                       OrZero(renderedAreas[i].trueTrack),
                       animationClock - renderedAreas[i].frozenAt)
    /\ ( /\ ghostLast.op = "open"
         /\ \A j \in 1..Len(ghostLast.flights) :
               ghostLast.flights[j].flightId # ghostLast.id
         /\ ~isFlightTracked(ghostLast.id, ghostLast.rendered) )
       => isFlightTracked(ghostLast.id, searchAreas)

\* the tracked flight has just left the feed; its area is as before and
\* the line now ends at the predicted position, away from the frozen one
C24_Witness ==
    /\ ghostLast.op = "flights"
    /\ ~ghostLast.renderedBetween
    /\ flightsRef = <<>>
    /\ Len(renderedAreas) = 1
    /\ searchAreas = renderedAreas
    /\ \E j \in 1..Len(ghostLast.flights) :
          ghostLast.flights[j].flightId = renderedAreas[1].originalId
    /\ animationClock > renderedAreas[1].frozenAt
    /\ getTargetPosition(renderedAreas[1])
          # <<renderedAreas[1].longitude, renderedAreas[1].latitude>>

\* no id has a search area in the last render and the timer is stopped
AllDestroyed ==
    /\ \A id \in GhostIds :
          /\ getSearchAreaStatus(id, renderedAreas) = "NONE"
          /\ ~isFlightTracked(id, renderedAreas)
    /\ intervalRef = NoTimer
    /\ ghostTimers = {}

\* C25 as stated: after clearAllSearchAreas the status of every id is NONE,
\* no id has a search area and the animation timer is stopped
C25_ResetDestroysAll ==
    ghostLast.op = "clearAll" => AllDestroyed

\* C25 amended: once the hook has rendered again after clearAllSearchAreas,
\* the status of every id is NONE, no id has a search area and the
\* animation timer is stopped
C25_ResetDestroysAllAtRender ==
    (ghostLast.op = "clearAll" /\ ghostLast.renderedBetween)
        => AllDestroyed /\ searchAreas = <<>>

\* two areas were open and shown, the reset and the render after it left
\* none
C25_Witness ==
    /\ ghostLast.op = "clearAll"
    /\ ghostLast.renderedBetween
    /\ Len(ghostLast.areas) = 2
    /\ Len(ghostLast.rendered) = 2
    /\ AllDestroyed

----------------------------------------------------------------------------
(* Properties of the batch cursor and of the broadcast *)

\* where the slice of the last refill ended
LastEnd == Min(last.currentBatchIndex + BATCH_SIZE, Len(allStates))

\* C26: with a dataset that is not empty the cursor is at least 0 and less
\* than the length of the dataset; an executed refill reads the slice from
\* the cursor to the smaller of cursor + BATCH_SIZE and the length, which
\* is not empty, and leaves the cursor at the end of the slice, or at 0
\* exactly when that end is the length; nothing else moves the cursor
C26_CursorCircular ==
    /\ Len(allStates) > 0 =>
          currentBatchIndex >= 0 /\ currentBatchIndex < Len(allStates)
    /\ RefillRan =>
          /\ LastEnd > last.currentBatchIndex
          /\ currentBatchIndex = IF LastEnd = Len(allStates) THEN 0
                                 ELSE LastEnd
          /\ Ids(activeFlights) \ Ids(last.activeFlights)
                \subseteq Ids(MapStates(LastSlice))
    /\ (last.op # "loadDataset" /\ ~RefillRan)
          => currentBatchIndex = last.currentBatchIndex

\* a refill read the short slice at the end of the dataset and the cursor
\* went back to 0
C26_Witness ==
    /\ RefillRan
    /\ last.currentBatchIndex > 0
    /\ LastEnd = Len(allStates)
    /\ LastEnd - last.currentBatchIndex < BATCH_SIZE
    /\ currentBatchIndex = 0

\* the records of the last flights_update for a flight id
Emitted(id) == {i \in 1..Len(emitted) : emitted[i].flightId = id}

\* C27: an animation tick with a connected client and a registry that is
\* not empty emits a flights_update; it holds one record for every flight
\* id of the registry and no other record, each with isGhost false and the
\* latitude and longitude the tick's advance gave the flight
C27_TickBroadcastsRegistry ==
    (TickRan /\ Len(last.activeFlights) > 0) =>
        /\ emitted # <<>>
        /\ Len(emitted) = Len(activeFlights)
        /\ \A i \in 1..Len(emitted) :
              /\ emitted[i].flightId \in Ids(activeFlights)
              /\ emitted[i].isGhost = FALSE
        /\ \A j \in 1..Len(last.activeFlights) :
              LET before == last.activeFlights[j]
                  after == updateFlightPosition(before, last.dt)
              IN  /\ Cardinality(Emitted(before.flightId)) = 1
                  /\ \A i \in Emitted(before.flightId) :
                        /\ emitted[i].latitude = after.latitude
                        /\ emitted[i].longitude = after.longitude

\* a tick moved a flight and left another where it was, and both are in
\* the flights_update with the positions after the tick
C27_Witness ==
    /\ TickRan
    /\ last.dt > 0
    /\ Len(emitted) >= 2
    /\ \E i, j \in 1..Len(emitted) :
          /\ ~SamePosition(emitted[i], last.activeFlights[i])
          /\ SamePosition(emitted[i], activeFlights[i])
          /\ SamePosition(emitted[j], last.activeFlights[j])
          /\ emitted[j].velocity = 0

----------------------------------------------------------------------------
(* Properties of the client flight store *)

\* the last operation merged a batch that was not empty
MergeRan == storeLast.op = "flights_update" /\ storeLast.batch # <<>>

\* the previous flights with the batch set over them, before any cut
Merged == SetAll(storeLast.flights, storeLast.batch, storeLast.time)

\* the entries the last merge took out for capacity
Evicted ==
    {i \in 1..Len(Merged) : ~Has(storeFlights, Merged[i].flightId)}

\* C21: the store has at most one entry for a flightId and at most
\* MAX_FLIGHTS entries; after a merge every id of the batch that was
\* stored before holds the record of the batch, every id of the batch that
\* is stored holds it too, every other id that is still stored holds the
\* record it had, and ids leave the store only when the merge went over
\* MAX_FLIGHTS, and then MAX_FLIGHTS entries stay
C21_StoreUpserts ==
    /\ Len(storeFlights) <= MAX_FLIGHTS
    /\ \A i, j \in 1..Len(storeFlights) :
          i # j => storeFlights[i].flightId # storeFlights[j].flightId
    /\ MergeRan =>
          /\ \A b \in 1..Len(storeLast.batch) :
                LET flight == storeLast.batch[b]
                IN  /\ Has(storeLast.flights, flight.flightId)
                          => Has(storeFlights, flight.flightId)
                    /\ \A i \in 1..Len(storeFlights) :
                          storeFlights[i].flightId = flight.flightId
                             => storeFlights[i]
                                   = Stamp(flight, storeLast.time)
          /\ \A p \in 1..Len(storeLast.flights) :
                ~Has(storeLast.batch, storeLast.flights[p].flightId)
                   => \A i \in 1..Len(storeFlights) :
                         storeFlights[i].flightId
                               = storeLast.flights[p].flightId
                            => storeFlights[i] = storeLast.flights[p]
          /\ Ids(storeFlights) \subseteq Ids(Merged)
          /\ IF Len(Merged) > MAX_FLIGHTS
             THEN Len(storeFlights) = MAX_FLIGHTS
             ELSE Ids(storeFlights) = Ids(Merged)

\* a merge replaced one stored flight, added another and took the store
\* over MAX_FLIGHTS, so that a stored flight was evicted
C21_Witness ==
    /\ MergeRan
    /\ Len(storeLast.flights) = MAX_FLIGHTS
    /\ Len(Merged) > MAX_FLIGHTS
    /\ \E b \in 1..Len(storeLast.batch), p \in 1..Len(storeLast.flights) :
          /\ storeLast.batch[b].flightId = storeLast.flights[p].flightId
          /\ storeLast.batch[b].latitude # storeLast.flights[p].latitude
          /\ Has(storeFlights, storeLast.batch[b].flightId)
    /\ \E p \in 1..Len(storeLast.flights) :
          ~Has(storeFlights, storeLast.flights[p].flightId)

\* C22: when a merge takes the store over MAX_FLIGHTS, no entry is evicted
\* while an entry with a strictly older lastUpdated is kept, and no entry
\* of the batch is evicted while an entry that is not of the batch is kept
C22_OldestEvicted ==
    (MergeRan /\ Len(Merged) > MAX_FLIGHTS) =>
        \A e \in Evicted, k \in 1..Len(storeFlights) :
            /\ ~(storeFlights[k].lastUpdated < Merged[e].lastUpdated)
            /\ Has(storeLast.batch, Merged[e].flightId)
                  => Has(storeLast.batch, storeFlights[k].flightId)

\* C30: a flights_update leaves the colour of every flight that was stored
\* before it and is stored after it as it was
C30_ColourPreserved ==
    MergeRan =>
        \A p \in 1..Len(storeLast.flights), i \in 1..Len(storeFlights) :
            storeFlights[i].flightId = storeLast.flights[p].flightId
               => storeFlights[i].color = storeLast.flights[p].color

----------------------------------------------------------------------------
(* Properties of the mode of the client and of the service manager *)

\* C28: while the mode is OFFLINE the flights are empty and no polling
\* timer is live, whatever requests of earlier modes answer in between;
\* while the mode is REALTIME exactly one polling timer is live, the one
\* intervalRef names
C28_OfflineIsEmpty ==
    /\ pollMode = "OFFLINE" => pollFlights = <<>> /\ pollTimers = {}
    /\ pollMode = "REALTIME" =>
          /\ Cardinality(pollTimers) = 1
          /\ pollIntervalRef \in pollTimers

\* C29: when switchService(newMode) returns, getCurrentMode() is newMode,
\* the service that was current when it was called is not running, and
\* that service was not running when the new service was created
C29_SwitchReplacesService ==
    managerLast.op = "switchReturned" =>
        /\ managerLast.currentMode = managerLast.newMode
        /\ ~managerLast.previousRunning
        /\ ~managerLast.previousRunningAtCreate

----------------------------------------------------------------------------
(* Properties of stopping and starting the stream *)

\* C31: when stopStreaming has returned the registry is empty, both timer
\* handles are null and the cursor is the one stopStreaming found; no step
\* of stopStreaming changes the dataset or the cursor
C31_StopKeepsCursor ==
    /\ []((last.op = "stopStreaming" /\ pc = "idle") =>
            /\ activeFlights = <<>>
            /\ streamInterval = NoTimer
            /\ animationInterval = NoTimer
            /\ currentBatchIndex = last.currentBatchIndex)
    /\ [][(pc = "clearing" \/ pc' = "clearing") =>
            /\ allStates' = allStates
            /\ currentBatchIndex' = currentBatchIndex]_vars

\* stopStreaming has returned from a stream whose cursor was inside the
\* dataset, and the cursor is still there
C31_Witness ==
    /\ last.op = "stopStreaming"
    /\ pc = "idle"
    /\ last.streamInterval # NoTimer
    /\ Len(last.activeFlights) > 0
    /\ last.currentBatchIndex > 0
    /\ currentBatchIndex = last.currentBatchIndex
    /\ activeFlights = <<>>

\* C32: at most one refill timer and at most one animation timer exist,
\* and they are the ones the handles name; startStreaming on a running
\* stream and startStreaming with an empty dataset create no timer
C32_OneTimerEach ==
    /\ Cardinality(streamTimers) <= 1
    /\ Cardinality(animTimers) <= 1
    /\ streamTimers = IF streamInterval = NoTimer THEN {}
                      ELSE {streamInterval}
    /\ animTimers = IF animationInterval = NoTimer THEN {}
                    ELSE {animationInterval}
    /\ ( /\ last.op = "startStreaming"
         /\ last.streamInterval # NoTimer \/ Len(allStates) = 0 )
       => /\ streamTimers = last.streamTimers
          /\ animTimers = last.animTimers
          /\ streamInterval = last.streamInterval
          /\ animationInterval = last.animationInterval

\* startStreaming was called on a running stream and the two timers of
\* before are the only ones
C32_Witness ==
    /\ last.op = "startStreaming"
    /\ last.streamInterval # NoTimer
    /\ last.animationInterval # NoTimer
    /\ streamTimers = {last.streamInterval}
    /\ animTimers = {last.animationInterval}

----------------------------------------------------------------------------
(* Properties of the life cycle of a flight service *)

\* C33: start() on a running service begins no initialize; isRunning turns
\* true only in the step that ends initialize, with the timer of the
\* service installed; isRunning turns false only in the step in which the
\* deleteAll of a cleanup settles
C33_RunningFollowsLifecycle ==
    /\ []((svcLast.op = "start" /\ svcLast.isRunning)
            => /\ svcPc = svcLast.svcPc
               /\ svcTimers = svcLast.svcTimers
               /\ isRunning)
    /\ [][(~isRunning /\ isRunning')
            => /\ svcPc'.startFetch + Len(svcPc'.startWrite)
                     < svcPc.startFetch + Len(svcPc.startWrite)
               /\ intervalId' \in svcTimers']_vars
    /\ [][(isRunning /\ ~isRunning')
            => svcPc'.stopDelete < svcPc.stopDelete]_vars

----------------------------------------------------------------------------
(* Properties of changing the mode from the client *)

\* C34: a changeMode(newMode) called while newMode is the current mode, or
\* while a change has not answered yet, sends no request; when a request
\* fails currentMode is as before, error is set and the failure is thrown;
\* when a request has answered, either way, loading is false
C34_ChangeModeGuarded ==
    /\ ( /\ sysLast.op = "changeMode"
         /\ sysLast.newMode = sysLast.currentMode \/ sysLast.changes # <<>> )
       => sysChanges = sysLast.changes
    /\ sysLast.op = "changeRejected"
       => /\ sysCurrentMode = sysLast.currentMode
          /\ sysError # NoError
          /\ sysLast.thrown
          /\ ~sysLoading
    /\ sysLast.op = "changeResolved" => ~sysLoading

\* the same with the guard read as the code reads it, on the currentMode
\* and loading of the render the callback comes from
C34_GuardedOnRender ==
    /\ ( /\ sysLast.op = "changeMode"
         /\ \/ sysLast.newMode = sysLast.rendered.currentMode
            \/ sysLast.rendered.loading )
       => sysChanges = sysLast.changes
    /\ sysLast.op = "changeRejected"
       => /\ sysCurrentMode = sysLast.currentMode
          /\ sysError # NoError
          /\ sysLast.thrown
          /\ ~sysLoading
    /\ sysLast.op = "changeResolved" => ~sysLoading

----------------------------------------------------------------------------
(* Properties of a failing and of overlapping service switches *)

\* C35: when switchService has failed, getCurrentService() and
\* getCurrentMode() are null and no service is running with a live timer
C35_FailedSwitchLeavesNothing ==
    managerLast.op = "switchFailed" =>
        /\ managerLast.current = NoService
        /\ managerLast.currentMode = "null"
        /\ managerLast.active = {}

\* C36: once every switchService call has returned and none is waiting,
\* and stopCurrentService was never called, the services that run with a
\* live timer are at most one, and that one is getCurrentService()
C36_AtMostCurrentRuns ==
    ( /\ managerCalls = <<>>
      /\ managerLast.op \in {"switchReturned", "switchFailed"}
      /\ ~managerLast.stoppedCurrent )
    => /\ Cardinality(RunningWithTimer(services)) <= 1
       /\ RunningWithTimer(services) \subseteq {currentService}

----------------------------------------------------------------------------
(* Properties of a stopped flight service *)

\* stop() has completed: the service is not running, its timer is cleared,
\* no deleteAll is pending, and no start() is on its way
StopCompleted ==
    /\ ~isRunning
    /\ svcTimers = {}
    /\ svcPc.stopDelete = 0
    /\ svcPc.startFetch = 0
    /\ svcPc.startWrite = <<>>

\* C37: once stop() has completed, no step of the service adds a flight to
\* the repository
C37_NoWriteAfterStop ==
    [][StopCompleted => repository' \subseteq repository]_vars

====
